---- MODULE Spec2Model ----
(***************************************************************************)
(* Model of vcardtools (src/vcardlib.py, src/vcardtools.py): the grouper   *)
(* get_vcards_groups with group_keys, collect_values, match_approx and     *)
(* select_most_relevant_name, and the library functions normalize,         *)
(* fix_and_convert_to_v3, merge, sanitize_name, collect_vcard_names,       *)
(* write_vcard_to_file and get_vcards_from_files, each called on its own.  *)
(*                                                                         *)
(* A Python string is a sequence of one-character strings, None is the     *)
(* value None below, a dict is an ordered list of (key, value) pairs where *)
(* the code relies on its insertion order and a function otherwise.  A     *)
(* raised exception is the final state pc = "failed" with its type in err. *)
(***************************************************************************)
EXTENDS Integers, Sequences, FiniteSets, TLC

(***************************************************************************)
(* Strings                                                                 *)
(***************************************************************************)

\* Python's None: no string, since every character is a one-letter string.
None == <<"None">>

\* `not x` for x a string or None
Falsy(x) == x = None \/ x = <<>>

\* the characters the model's strings are written with, in code point order
Alphabet == <<"\t", " ", "\"", "(", ")", ",", "-", ".", "0", "1", "2", "3", "4",
              "5", "6", "7", "8", "9", ":", ";", "<", "=", ">", "@", "A", "B", "C",
              "D", "E", "F", "G", "H", "I", "J", "K", "L", "M", "N", "O", "P", "Q",
              "R", "S", "T", "U", "V", "W", "X", "Y", "Z", "[", "\\", "]", "_", "a",
              "b", "c", "d", "e", "f", "g", "h", "i", "j", "k", "l", "m", "n", "o",
              "p", "q", "r", "s", "t", "u", "v", "w", "x", "y", "z">>

Ord(c) == CHOOSE i \in 1..Len(Alphabet) : Alphabet[i] = c

\* the ASCII letters
LowerLetters == <<"a", "b", "c", "d", "e", "f", "g", "h", "i", "j", "k", "l", "m",
                 "n", "o", "p", "q", "r", "s", "t", "u", "v", "w", "x", "y", "z">>

UpperLetters == <<"A", "B", "C", "D", "E", "F", "G", "H", "I", "J", "K", "L", "M",
                 "N", "O", "P", "Q", "R", "S", "T", "U", "V", "W", "X", "Y", "Z">>

\* str.lower() and str.upper() on one character
LowerChar(c) ==
    IF \E x \in 1..26 : UpperLetters[x] = c
    THEN LowerLetters[CHOOSE x \in 1..26 : UpperLetters[x] = c]
    ELSE c

UpperChar(c) ==
    IF \E x \in 1..26 : LowerLetters[x] = c
    THEN UpperLetters[CHOOSE x \in 1..26 : LowerLetters[x] = c]
    ELSE c

Lower(s) == [i \in 1..Len(s) |-> LowerChar(s[i])]

Upper(s) == [i \in 1..Len(s) |-> UpperChar(s[i])]

\* the digits of the model's strings, the ASCII letters, and \w of the re module:
\* letters, digits and the underscore
IsDigit(c) == c \in {"0", "1", "2", "3", "4", "5", "6", "7", "8", "9"}

IsLetter(c) == \E x \in 1..26 : c \in {LowerLetters[x], UpperLetters[x]}

IsWordChar(c) == IsLetter(c) \/ IsDigit(c) \/ c = "_"

\* s[i:] and s[:i] with 1-based i (the suffix starting at i, the prefix before i)
From(s, i) == SubSeq(s, i, Len(s))

Upto(s, i) == SubSeq(s, 1, i - 1)

\* str.startswith
StartsWith(s, p) == Len(p) <= Len(s) /\ SubSeq(s, 1, Len(p)) = p

\* the first position >= i of s holding character c, or 0
RECURSIVE Find(_, _, _)
Find(s, c, i) ==
    IF i > Len(s) THEN 0 ELSE IF s[i] = c THEN i ELSE Find(s, c, i + 1)

\* the first position >= i of s that holds no space (Len(s) + 1 if none)
RECURSIVE SkipSpaces(_, _)
SkipSpaces(s, i) ==
    IF i <= Len(s) /\ s[i] = " " THEN SkipSpaces(s, i + 1) ELSE i

\* the first position >= i of s where sub occurs, or 0
RECURSIVE FindSub(_, _, _)
FindSub(s, sub, i) ==
    IF i + Len(sub) - 1 > Len(s) THEN 0
    ELSE IF SubSeq(s, i, i + Len(sub) - 1) = sub THEN i
    ELSE FindSub(s, sub, i + 1)

\* `sub in s`
Contains(s, sub) == FindSub(s, sub, 1) # 0

\* the whitespace characters of the model's strings: space and tab
IsSpace(c) == c \in {" ", "\t"}

\* str.strip(): leading and trailing whitespace is removed
RECURSIVE RStrip(_)
RStrip(s) ==
    IF s # <<>> /\ IsSpace(s[Len(s)]) THEN RStrip(SubSeq(s, 1, Len(s) - 1)) ELSE s

RECURSIVE LStrip(_)
LStrip(s) == IF s # <<>> /\ IsSpace(s[1]) THEN LStrip(Tail(s)) ELSE s

Strip(s) == RStrip(LStrip(s))

\* str.endswith
EndsWith(s, p) == Len(p) <= Len(s) /\ SubSeq(s, Len(s) - Len(p) + 1, Len(s)) = p

\* s.replace(old, new) for a non-empty old: every occurrence, left to right
RECURSIVE Replace(_, _, _)
Replace(s, old, new) ==
    LET p == FindSub(s, old, 1)
    IN  IF p = 0 THEN s
        ELSE Upto(s, p) \o new \o Replace(From(s, p + Len(old)), old, new)

\* re.sub(' +', ' ', s)
RECURSIVE CollapseSpaces(_)
CollapseSpaces(s) ==
    IF s = <<>> THEN <<>>
    ELSE IF s[1] = " " THEN <<" ">> \o CollapseSpaces(From(s, SkipSpaces(s, 1)))
    ELSE <<s[1]>> \o CollapseSpaces(Tail(s))

\* s.split(sep) for a non-empty separator: empty pieces are kept
RECURSIVE SplitBy(_, _)
SplitBy(s, sep) ==
    LET p == FindSub(s, sep, 1)
    IN  IF p = 0 THEN <<s>>
        ELSE <<Upto(s, p)>> \o SplitBy(From(s, p + Len(sep)), sep)

\* sep.join(parts)
RECURSIVE Join(_, _)
Join(parts, sep) ==
    IF parts = <<>> THEN <<>>
    ELSE IF Len(parts) = 1 THEN parts[1]
    ELSE parts[1] \o sep \o Join(Tail(parts), sep)

\* s.split(): the maximal runs of non-space characters
RECURSIVE Tokens(_)
Tokens(s) ==
    LET t == From(s, SkipSpaces(s, 1))
        e == Find(t, " ", 1)
    IN  IF t = <<>> THEN <<>>
        ELSE IF e = 0 THEN <<t>>
        ELSE <<Upto(t, e)>> \o Tokens(From(t, e))

\* a < b for two strings, as Python orders them
RECURSIVE StrLess(_, _)
StrLess(a, b) ==
    IF b = <<>> THEN FALSE
    ELSE IF a = <<>> THEN TRUE
    ELSE IF a[1] = b[1] THEN StrLess(Tail(a), Tail(b))
    ELSE Ord(a[1]) < Ord(b[1])

\* sorted(tokens)
RECURSIVE InsertSorted(_, _)
InsertSorted(t, sorted) ==
    IF sorted = <<>> THEN <<t>>
    ELSE IF StrLess(t, sorted[1]) THEN <<t>> \o sorted
    ELSE <<sorted[1]>> \o InsertSorted(t, Tail(sorted))

RECURSIVE SortTokens(_)
SortTokens(ts) ==
    IF ts = <<>> THEN <<>> ELSE InsertSorted(ts[1], SortTokens(Tail(ts)))

\* the elements of a list, as a set
Range(f) == {f[i] : i \in DOMAIN f}

(***************************************************************************)
(* Options (module globals of vcardlib.py)                                 *)
(***************************************************************************)

\* 'names', 'tel_!work' and 'email', the attribute specs of OPTION_MATCH_ATTRIBUTES
AttrNames == <<"n", "a", "m", "e", "s">>

AttrTelNotWork == <<"t", "e", "l", "_", "!", "w", "o", "r", "k">>

AttrEmail == <<"e", "m", "a", "i", "l">>

OPTION_MATCH_ATTRIBUTES == <<AttrNames, AttrTelNotWork, AttrEmail>>

OPTION_MATCH_APPROX_SAME_FIRST_LETTER == TRUE

OPTION_MATCH_APPROX_MIN_LENGTH == 5

\* OPTION_MATCH_APPROX_MAX_DISTANCE = range(-MaxDistance, MaxDistance)
MaxDistance == 3

OPTION_MATCH_APPROX_MAX_DISTANCE == (0 - MaxDistance)..(MaxDistance - 1)

OPTION_MATCH_APPROX_RATIO == 100

OPTION_UPDATE_GROUP_KEY == TRUE

OPTION_FRENCH_TWEAKS == FALSE

\* the module attributes of vcardlib that the driver assigns and the fixer
\* reads, as the module defines them
ModuleOptions == [OPTION_DOT_NOT_FORCE_ESCAPE_COMAS |-> FALSE]

(***************************************************************************)
(* Names                                                                   *)
(***************************************************************************)

\* REGEX_ANYTHING_BETWEEN_PARENTH_OR_BRACES = ' *(\([^)]*\)|\[[^]]*\]) *':
\* the position of the closing bracket of a match that starts at i, or 0
BracketClose(s, i) ==
    LET k == SkipSpaces(s, i)
    IN  IF k > Len(s) THEN 0
        ELSE IF s[k] = "(" THEN Find(s, ")", k + 1)
        ELSE IF s[k] = "[" THEN Find(s, "]", k + 1)
        ELSE 0

\* REGEX_ANYTHING_BETWEEN_PARENTH_OR_BRACES.sub('', s)
RECURSIVE BracketSub(_)
BracketSub(s) ==
    IF s = <<>> THEN <<>>
    ELSE LET c == BracketClose(s, 1)
         IN  IF c # 0 THEN BracketSub(From(s, SkipSpaces(s, c + 1)))
             ELSE <<s[1]>> \o BracketSub(Tail(s))

\* the start of the first match of REGEX_ANYTHING_BETWEEN_PARENTH_OR_BRACES, or 0
RECURSIVE BracketSearchFrom(_, _)
BracketSearchFrom(s, i) ==
    IF i > Len(s) THEN 0
    ELSE IF BracketClose(s, i) # 0 THEN i
    ELSE BracketSearchFrom(s, i + 1)

BracketSearch(s) == BracketSearchFrom(s, 1)

\* group 1 of the first match: the bracketed segment, brackets included
BracketGroup(s) ==
    LET i == BracketSearch(s)
    IN  SubSeq(s, SkipSpaces(s, i), BracketClose(s, i))

len_without_parenth_or_braces(string) == Len(BracketSub(string))

\* the result of a call: err is "none" when it returned val, else the exception
Return(v) == [err |-> "none", val |-> v]

Raise(e) == [err |-> e, val |-> None]

\* the loop of select_most_relevant_name from names[pos]: an empty name is
\* skipped, any other name raises TypeError, so the statements that follow the
\* raise in the loop body (the length comparisons) are never executed
RECURSIVE SelectLoop(_, _, _, _)
SelectLoop(names, pos, selected_name, longuest_length) ==
    IF pos > Len(names) THEN Return(selected_name)
    ELSE IF names[pos] = <<>>
         THEN SelectLoop(names, pos + 1, selected_name, longuest_length)
         ELSE Raise("TypeError")

\* a selection that gives the name 'ko' for every list
SelectFixedName(names) == Return(<<"k", "o">>)

select_most_relevant_name(names) ==
    IF names = <<>> THEN Raise("ValueError")
    ELSE LET r == SelectLoop(names, 1, None, 0)
         IN  IF r.err # "none" THEN r
             ELSE IF Falsy(r.val) THEN Raise("RuntimeError")
             ELSE IF Contains(r.val, <<"=">>) THEN Raise("RuntimeError")
             ELSE r

\* build_formatted_name: the family and given parts of a name, and its suffix
build_formatted_name(name0) ==
    LET found == BracketSearch(name0) # 0
        name_suffix == IF found THEN Strip(BracketGroup(name0)) ELSE None
        name == IF found THEN BracketSub(name0) ELSE name0
        dash == <<" ", "-", " ">>
        de == <<" ", "d", "e", " ">>
        parts == IF Contains(name, dash) THEN SplitBy(name, dash)
                 ELSE IF OPTION_FRENCH_TWEAKS /\ Contains(Lower(name), de)
                      THEN SplitBy(Lower(name), de)
                 ELSE SplitBy(name, <<" ">>)
        family == IF Contains(name, dash) THEN parts[1]
                  ELSE IF OPTION_FRENCH_TWEAKS /\ Contains(Lower(name), de)
                       THEN <<"D", "e", " ">> \o parts[1]
                  ELSE parts[Len(parts)]
        rest == IF Contains(name, dash)
                   \/ (OPTION_FRENCH_TWEAKS /\ Contains(Lower(name), de))
                THEN Tail(parts)
                ELSE SubSeq(parts, 1, Len(parts) - 1)
    IN  [family |-> family, given |-> Join(rest, <<" ">>),
         suffix |-> IF Falsy(name_suffix) THEN None ELSE name_suffix]

reverse_words(string) ==
    LET reverse_name == build_formatted_name(string)
    IN  reverse_name.family \o <<" ">> \o reverse_name.given

(***************************************************************************)
(* Fuzzy matching                                                          *)
(***************************************************************************)

\* fuzzywuzzy's full_process: non-word characters become spaces, lower, strip
full_process(s) ==
    Strip([i \in 1..Len(s) |->
              IF IsWordChar(s[i]) THEN LowerChar(s[i]) ELSE " "])

\* fuzzywuzzy's _process_and_sort: the sorted tokens joined by one space
process_and_sort(s) == Join(SortTokens(Tokens(full_process(s))), <<" ">>)

\* token_sort_ratio(a, b) = 100: the ratio of two strings is 100 when the
\* processed strings are equal and not empty, and below 100 otherwise (for
\* strings shorter than 100 characters, where rounding cannot reach 100)
token_sort_ratio_is_100(a, b) ==
    /\ process_and_sort(a) # <<>>
    /\ process_and_sort(a) = process_and_sort(b)

\* s[:1].lower()
FirstLower(s) == Lower(SubSeq(s, 1, IF s = <<>> THEN 0 ELSE 1))

\* match_approx with OPTION_MATCH_APPROX_RATIO = 100, where score >= ratio is
\* score = 100; startswith is OPTION_MATCH_APPROX_STARTSWITH
match_approx(reference, compared, startswith) ==
    LET reference_reversed == reverse_words(reference)
        compared_reversed == reverse_words(compared)
    IN  \/ /\ OPTION_MATCH_APPROX_RATIO = 100
           /\ token_sort_ratio_is_100(reference, compared)
        \/ /\ Len(reference) > OPTION_MATCH_APPROX_MIN_LENGTH
           /\ Len(compared) > OPTION_MATCH_APPROX_MIN_LENGTH
           /\ \/ ~OPTION_MATCH_APPROX_SAME_FIRST_LETTER
              \/ FirstLower(reference) = FirstLower(compared)
              \/ FirstLower(reference) = FirstLower(compared_reversed)
              \/ FirstLower(reference_reversed) = FirstLower(compared)
           /\ \/ /\ startswith
                 /\ Len(reference) - Len(compared) \in OPTION_MATCH_APPROX_MAX_DISTANCE
                 /\ \/ StartsWith(reference, compared)
                    \/ StartsWith(compared, reference)
                    \/ StartsWith(reference_reversed, compared)
                    \/ StartsWith(compared_reversed, reference)
              \/ token_sort_ratio_is_100(reference, compared)

(***************************************************************************)
(* Records and collect_values                                              *)
(***************************************************************************)

\* A record of the working set: its key in the vcards dict and its property
\* lists.  fn, n and email hold str(attr.value) of each instance in order; a
\* tel instance holds its value and its TYPE parameter (a list of strings,
\* empty when the instance has no TYPE).
Vcard(key, fn, n, tel, email) ==
    [key |-> key, fn |-> fn, n |-> n, tel |-> tel, email |-> email]

Tel(value, type) == [value |-> value, type |-> type]

PropFn == <<"f", "n">>

PropN == <<"n">>

PropTel == <<"t", "e", "l">>

\* getattr(vcard, key + "_list") as (value, TYPE) pairs; hasattr(vcard, key)
\* is false exactly when the list is empty
PropList(vcard, key) ==
    CASE key = PropFn -> [x \in DOMAIN vcard.fn |-> Tel(vcard.fn[x], <<>>)]
      [] key = PropN -> [x \in DOMAIN vcard.n |-> Tel(vcard.n[x], <<>>)]
      [] key = PropTel -> vcard.tel
      [] key = AttrEmail -> [x \in DOMAIN vcard.email |-> Tel(vcard.email[x], <<>>)]
      [] OTHER -> <<>>

\* str(attr.params.get(param_key)).upper() == "['" + param_value + "']"
TypeIs(type, param_value) ==
    Len(type) = 1 /\ Upper(type[1]) = param_value

\* the value as collect_values and filter_values_by_param append it
ValueOf(key, value) ==
    IF key = PropN THEN Strip(CollapseSpaces(value)) ELSE Strip(value)

\* filter_values_by_param: the values kept of the key's instances, in order
filter_values_by_param(vcard, key, param_value0) ==
    LET exclude == StartsWith(param_value0, <<"!">>)
        param_value == Upper(IF exclude THEN Tail(param_value0) ELSE param_value0)
        attrs == PropList(vcard, key)
        kept == SelectSeq(attrs, LAMBDA attr :
                    IF TypeIs(attr.type, param_value) THEN ~exclude ELSE exclude)
    IN  [x \in DOMAIN kept |-> ValueOf(key, kept[x].value)]

\* the values collect_values appends for one key of its keys tuple
ValuesOfKey(vcard, key) ==
    IF Contains(key, <<"_">>)
    THEN LET kt == SplitBy(key, <<"_">>)
         IN  Range(filter_values_by_param(vcard, kt[1], kt[2]))
    ELSE IF key = AttrNames THEN {}
    ELSE {ValueOf(key, attr.value) :
             attr \in {x \in Range(PropList(vcard, key)) : x.value # <<>>}}

\* collect_values(vcard, attr): a set; 'names' adds the keys 'fn' and 'n'
collect_values(vcard, attr) ==
    LET keys == IF attr = AttrNames THEN <<attr, PropFn, PropN>> ELSE <<attr>>
    IN  UNION {ValuesOfKey(vcard, keys[x]) : x \in DOMAIN keys}

\* a_key of get_vcards_groups: the index an attribute spec is mapped in
AKey(attr) ==
    IF Contains(attr, <<"_">>) THEN SplitBy(attr, <<"_">>)[1] ELSE attr

(***************************************************************************)
(* group_keys                                                              *)
(***************************************************************************)

\* d[k] = v on a dict d
Put(d, k, v) == [x \in DOMAIN d \cup {k} |-> IF x = k THEN v ELSE d[x]]

\* d.get(k), None when k is no key of d
Get(d, k) == IF k \in DOMAIN d THEN d[k] ELSE None

\* del d[k]
Del(d, k) == [x \in DOMAIN d \ {k} |-> d[x]]

\* d[k] = v for every k of the list ks
RECURSIVE PutAll(_, _, _)
PutAll(d, ks, v) ==
    IF ks = <<>> THEN d ELSE PutAll(Put(d, ks[1], v), Tail(ks), v)

\* what mappings['groups'][key] is when vcard_group is read from it (a list)
ListObject == <<"list">>

\* the outcome of group_keys: the two mappings as the call leaves them, the
\* exception it raised (or "none") and the group it returned
GKResult(e, g, vg, ret) == [err |-> e, groups |-> g, vcard_group |-> vg, ret |-> ret]

\* the last statements of group_keys
GKEnd(g, vg, key1, key2, selected_group) ==
    GKResult("none", g, Put(Put(vg, key1, selected_group), key2, selected_group),
             selected_group)

group_keys(g, vg, key1, key2, group1, group2) ==
    IF group1 = ListObject \/ group2 = ListObject
    THEN GKResult("TypeError", g, vg, None)
    ELSE IF ~(key1 # key2 /\ (group1 # group2 \/ (Falsy(group1) /\ Falsy(group2))))
    THEN GKEnd(g, vg, key1, key2, group1)
    ELSE IF Falsy(group1) /\ Falsy(group2)
    THEN \* first match: create a group
         LET new_group_key == select_most_relevant_name(<<key1, key2>>)
         IN  IF new_group_key.err # "none"
             THEN GKResult(new_group_key.err, g, vg, None)
             ELSE IF new_group_key.val \in DOMAIN g
             THEN GKResult("RuntimeError", g, vg, None)
             ELSE GKEnd(Put(g, new_group_key.val, <<key1, key2>>), vg, key1, key2,
                        new_group_key.val)
    ELSE IF Falsy(group1) \/ Falsy(group2)
    THEN \* one vcard joins the group of the other
         LET exiting_group == IF ~Falsy(group1) THEN group1 ELSE group2
             vcard_to_add == IF ~Falsy(group1) THEN key2 ELSE key1
         IN  IF exiting_group \notin DOMAIN g
             THEN GKResult("KeyError", g, vg, None)
             ELSE
             LET g1 == [g EXCEPT ![exiting_group] = Append(@, vcard_to_add)]
                 new_group_key ==
                     select_most_relevant_name(<<exiting_group, vcard_to_add>>)
             IN  IF new_group_key.err # "none"
                 THEN GKResult(new_group_key.err, g1, vg, None)
                 ELSE IF new_group_key.val # exiting_group /\ OPTION_UPDATE_GROUP_KEY
                 THEN GKEnd(Put(Del(g1, exiting_group), new_group_key.val,
                                g1[exiting_group]),
                            PutAll(vg, g1[exiting_group], new_group_key.val),
                            key1, key2, new_group_key.val)
                 ELSE GKEnd(g1, vg, key1, key2, exiting_group)
    ELSE \* merge the two groups
         LET dest == select_most_relevant_name(<<group1, group2>>)
             dest_group_key == dest.val
             other_group_key == IF dest_group_key # group1 THEN group1 ELSE group2
         IN  IF dest.err # "none"
             THEN GKResult(dest.err, g, vg, None)
             ELSE IF other_group_key \notin DOMAIN g \/ dest_group_key \notin DOMAIN g
             THEN GKResult("KeyError", g, vg, None)
             ELSE GKEnd(Del([g EXCEPT ![dest_group_key] = @ \o g[other_group_key]],
                            other_group_key),
                        PutAll(vg, g[other_group_key], dest_group_key),
                        key1, key2, dest_group_key)

(***************************************************************************)
(* The working sets the grouper is run on                                  *)
(***************************************************************************)

\* most records a working set holds
MaxVcards == 3

sAbCd == <<"a", "b", " ", "c", "d">>

sCdAb == <<"c", "d", " ", "a", "b">>

sAbDashCd == <<"a", "b", " ", "-", " ", "c", "d">>

sAbcdef == <<"a", "b", "c", "d", "e", "f">>

sAbcdefghi == <<"a", "b", "c", "d", "e", "f", "g", "h", "i">>

sKo == <<"k", "o">>

sMailA == <<"a", "@", "e">>

sMailB == <<"b", "@", "e">>

sTel1 == <<"0", "1">>

sTel2 == <<"0", "2">>

tWork == <<"w", "o", "r", "k">>

tHome == <<"H", "O", "M", "E">>

\* normalized records: each has one FN and one N
Universe ==
    { Vcard(sAbCd, <<sAbCd>>, <<sAbCd>>, <<>>, <<sMailA>>),
      Vcard(sCdAb, <<sCdAb>>, <<sCdAb>>,
            <<Tel(<<" ">> \o sTel2, <<tHome, tWork>>)>>, <<sMailB>>),
      Vcard(sAbDashCd, <<sAbDashCd>>, <<<<"c", "d", " ", " ", "a", "b">>>>,
            <<Tel(sTel2, <<>>)>>, <<>>),
      Vcard(sAbcdefghi, <<sAbcdefghi>>, <<sAbcdef>>, <<Tel(sTel1, <<tWork>>)>>,
            <<sMailA \o <<" ">> >>),
      Vcard(sKo, <<sKo>>, <<sKo>>, <<Tel(sTel1, <<tWork>>)>>, <<>>) }

\* the ordered working sets: up to MaxVcards records with distinct keys
WorkingSets ==
    {vs \in UNION {[1..n -> Universe] : n \in 0..MaxVcards} :
        \A x, y \in DOMAIN vs : x # y => vs[x].key # vs[y].key}

\* the orderings of one working set
Orderings(vs) ==
    {[x \in DOMAIN vs |-> vs[f[x]]] : f \in Permutations(DOMAIN vs)}

(***************************************************************************)
(* fix_and_convert_to_v3                                                   *)
(***************************************************************************)

\* The text of a file is the list of its lines, each without its line end.

\* the literals of fix_and_convert_to_v3
sBeginVcard == <<"B", "E", "G", "I", "N", ":", "V", "C", "A", "R", "D">>
sEndVcard == <<"E", "N", "D", ":", "V", "C", "A", "R", "D">>
sQuotedPrintable == <<"Q", "U", "O", "T", "E", "D", "-", "P", "R", "I", "N", "T", "A", "B", "L", "E">>
sDoubleQuotedPrintable == <<"Q", "U", "O", "T", "E", "D", "-", "P", "R", "I", "N", "T", "A", "B", "L", "E", ";", "Q", "U", "O", "T", "E", "D", "-", "P", "R", "I", "N", "T", "A", "B", "L", "E">>
sTypeEq == <<"T", "Y", "P", "E", "=">>
sEncodingBase64 == <<"E", "N", "C", "O", "D", "I", "N", "G", "=", "B", "A", "S", "E", "6", "4">>
sEncodingUpperB == <<"E", "N", "C", "O", "D", "I", "N", "G", "=", "B">>
sEncodingB == <<"E", "N", "C", "O", "D", "I", "N", "G", "=", "b">>
sEncodingQuotedPrintable == <<"E", "N", "C", "O", "D", "I", "N", "G", "=", "Q", "U", "O", "T", "E", "D", "-", "P", "R", "I", "N", "T", "A", "B", "L", "E">>
sValueUri == <<"V", "A", "L", "U", "E", "=", "U", "R", "I">>
sCharsetEq == <<"C", "H", "A", "R", "S", "E", "T", "=">>
sCharsetUtf8 == <<"C", "H", "A", "R", "S", "E", "T", "=", "U", "T", "F", "-", "8">>
sEqQuotedPrintable == <<"=", "Q", "U", "O", "T", "E", "D", "-", "P", "R", "I", "N", "T", "A", "B", "L", "E">>

\* the words of the regex of line 1017, in its order
KnownTypes ==
    << <<"P", "G", "P">>,
       <<"P", "N", "G">>,
       <<"J", "P", "E", "G">>,
       <<"G", "I", "F">>,
       <<"O", "G", "G">>,
       <<"I", "N", "T", "E", "R", "N", "E", "T">>,
       <<"P", "R", "E", "F">>,
       <<"H", "O", "M", "E">>,
       <<"W", "O", "R", "K">>,
       <<"M", "A", "I", "N">>,
       <<"C", "E", "L", "L">>,
       <<"F", "A", "X">>,
       <<"V", "O", "I", "C", "E">> >>

\* re.sub('([^\\\\]|^),', '\\1\\,', s) from position k: a comma and the character
\* before it, when that is no backslash, are one match; a comma that opens the
\* string is a match; a match is replaced by its first character, if any, and
\* an escaped comma, and the search goes on after the match
RECURSIVE EscapeCommasFrom(_, _)
EscapeCommasFrom(s, k) ==
    IF k > Len(s) THEN <<>>
    ELSE IF k < Len(s) /\ s[k] # "\\" /\ s[k + 1] = ","
         THEN <<s[k], "\\", ",">> \o EscapeCommasFrom(s, k + 2)
    ELSE IF k = 1 /\ s[k] = ","
         THEN <<"\\", ",">> \o EscapeCommasFrom(s, k + 1)
    ELSE <<s[k]>> \o EscapeCommasFrom(s, k + 1)

EscapeCommas(s) == EscapeCommasFrom(s, 1)

\* re.match(r'^([^: ]+):.*', line): the position of the colon that ends the
\* key part, or 0 when the line is no key:value line
KeyValueColon(line) ==
    LET c == Find(line, ":", 1)
    IN  IF c > 1 /\ Find(Upto(line, c), " ", 1) = 0 THEN c ELSE 0

\* some word of KnownTypes starts at position k of s
KnownTypeAt(s, k) ==
    \E x \in DOMAIN KnownTypes : StartsWith(From(s, k), KnownTypes[x])

\* re.sub(r';(PGP|...|VOICE)', ';TYPE=\\1', s): TYPE= is put after every
\* semicolon that a known type follows
RECURSIVE PrefixKnownTypes(_)
PrefixKnownTypes(s) ==
    IF s = <<>> THEN <<>>
    ELSE IF s[1] = ";" /\ KnownTypeAt(s, 2)
         THEN <<";">> \o sTypeEq \o PrefixKnownTypes(Tail(s))
    ELSE <<s[1]>> \o PrefixKnownTypes(Tail(s))

\* the fields of a key part that has a TYPE=: the TYPE values in type_list and
\* the other fields, converted, in rest_list
RECURSIVE SortFields(_, _, _)
SortFields(fields, type_list, rest_list) ==
    IF fields = <<>> THEN [type_list |-> type_list, rest_list |-> rest_list]
    ELSE LET field == fields[1]
         IN  IF StartsWith(field, sTypeEq)
             THEN SortFields(Tail(fields),
                             Append(type_list, From(field, Len(sTypeEq) + 1)),
                             rest_list)
             ELSE SortFields(Tail(fields), type_list,
                             Append(rest_list,
                                 IF field \in {sEncodingBase64, sEncodingUpperB}
                                 THEN sEncodingB
                                 ELSE IF field = sQuotedPrintable
                                      THEN sEncodingQuotedPrintable
                                 ELSE field))

\* the new line built for a key:value line whose key part holds a semicolon
FixFields(key_part0, rest_part) ==
    LET key_part == Replace(key_part0, sDoubleQuotedPrintable, sQuotedPrintable)
        new_key_part == PrefixKnownTypes(key_part)
        semi == Find(key_part, ";", 1)
        key_value == IF semi > 1 THEN Upto(key_part, semi) ELSE key_part
        new_semi == Find(new_key_part, ";", 1)
        sorted == SortFields(
                      SplitBy(IF new_semi > 1 THEN From(new_key_part, new_semi + 1)
                              ELSE new_key_part, <<";">>),
                      <<>>, <<>>)
        type_list == sorted.type_list
        image == \E x \in DOMAIN type_list :
                     type_list[x] \in {KnownTypes[3], KnownTypes[2], KnownTypes[4]}
        rest1 == IF image /\ sEncodingB \notin Range(sorted.rest_list)
                          /\ sValueUri \notin Range(sorted.rest_list)
                 THEN Append(sorted.rest_list, sValueUri)
                 ELSE sorted.rest_list
        rest_list == IF sEncodingQuotedPrintable \in Range(rest1)
                        /\ ~Contains(Join(rest1, <<",">>), sCharsetEq)
                     THEN Append(rest1, sCharsetUtf8)
                     ELSE rest1
        converted == Replace(new_key_part, <<";">> \o sQuotedPrintable,
                             <<";">> \o sEncodingQuotedPrintable)
    IN  IF Contains(new_key_part, sTypeEq)
        THEN key_value \o <<";">> \o sTypeEq \o Join(type_list, <<",">>)
                 \o (IF rest_list # <<>> THEN <<";">> \o Join(rest_list, <<";">>)
                     ELSE <<>>)
                 \o <<":">> \o rest_part
        ELSE IF Contains(new_key_part, sQuotedPrintable)
             THEN (IF ~Contains(converted, sCharsetEq)
                   THEN Replace(converted, sEqQuotedPrintable,
                                sEqQuotedPrintable \o <<";">> \o sCharsetUtf8)
                   ELSE converted) \o <<":">> \o rest_part
        ELSE new_key_part \o <<":">> \o rest_part

\* what the loop body makes of a line that is not joined to the previous one:
\* the new line and whether it starts a quoted-printable value
FixLine(line, do_not_force_escape_comas) ==
    LET colon == KeyValueColon(line)
        key_part == Upper(Upto(line, colon))
        rest_part == IF do_not_force_escape_comas THEN From(line, colon + 1)
                     ELSE EscapeCommas(From(line, colon + 1))
        new_line == IF Contains(key_part, <<";">>) THEN FixFields(key_part, rest_part)
                    ELSE key_part \o <<":">> \o rest_part
    IN  IF Upper(line) \in {sBeginVcard, sEndVcard}
        THEN [new_line |-> Upper(line), started |-> FALSE]
        ELSE IF colon # 0
             THEN [new_line |-> new_line,
                   started |-> Contains(key_part, <<";">>)
                               /\ Contains(new_line, sEncodingQuotedPrintable)]
        ELSE [new_line |-> line, started |-> FALSE]

\* the loop of fix_and_convert_to_v3 over the lines of the file, from line k,
\* with the lines saved so far, last_line (None when there is none) and
\* started_quoted_printable
RECURSIVE FixLoop(_, _, _, _, _, _)
FixLoop(text, k, lines, last_line, started_quoted_printable, do_not_force_escape_comas) ==
    IF k > Len(text)
    THEN IF last_line # None THEN Append(lines, last_line) ELSE lines
    ELSE LET line == text[k]
             joined == /\ last_line # None
                       /\ started_quoted_printable
                       /\ KeyValueColon(line) = 0
             cut == IF last_line # <<>> /\ last_line[Len(last_line)] = "="
                    THEN Upto(last_line, Len(last_line))
                    ELSE last_line
             fragment == IF do_not_force_escape_comas THEN line ELSE EscapeCommas(line)
             fixed_line == FixLine(line, do_not_force_escape_comas)
         IN  IF joined
             THEN FixLoop(text, k + 1, lines, cut \o Strip(fragment), TRUE,
                          do_not_force_escape_comas)
             ELSE FixLoop(text, k + 1,
                          IF last_line # None THEN Append(lines, last_line) ELSE lines,
                          fixed_line.new_line, fixed_line.started,
                          do_not_force_escape_comas)

\* fix_and_convert_to_v3(file_path) for a file with the lines of text, under
\* the module attributes options
fix_and_convert_to_v3(text, options) ==
    FixLoop(text, 1, <<>>, None, FALSE, options.OPTION_DOT_NOT_FORCE_ESCAPE_COMAS)

(***************************************************************************)
(* add_attributes, collect_attributes and merge                            *)
(***************************************************************************)

\* A property instance is an object: objs[id] holds its name (upper case, as
\* vobject keeps it), its value and its params dict, a list of (name, list)
\* pairs where list is the id of a list object of pls.  A record is the list of
\* the ids of its children, in the order getChildren() yields them.
Instance(name, value, params) == [name |-> name, value |-> value, params |-> params]

Param(name, list) == [name |-> name, list |-> list]

NameFn == <<"F", "N">>

NameTel == <<"T", "E", "L">>

NameEmail == <<"E", "M", "A", "I", "L">>

NameVersion == <<"V", "E", "R", "S", "I", "O", "N">>

\* the index of parameter p_name in a params dict, or 0
ParamIndex(params, p_name) ==
    IF \E x \in DOMAIN params : params[x].name = p_name
    THEN CHOOSE x \in DOMAIN params : params[x].name = p_name
    ELSE 0

\* the inner loop of add_attributes with no value appended
AppendNothing(p_values, p_value) == p_values

\* for pv_to_add in p_value: if not pv_to_add in p_values: p_values.append(...)
RECURSIVE AppendMissing(_, _)
AppendMissing(p_values, p_value) ==
    IF p_value = <<>> THEN p_values
    ELSE AppendMissing(
             IF p_value[1] \in Range(p_values) THEN p_values
             ELSE Append(p_values, p_value[1]),
             Tail(p_value))

\* setattr(attr, p_name + '_param', p_value): the list object is stored in the
\* params dict under the upper-case name
SetParam(params, p_name, p_list) ==
    IF ParamIndex(params, Upper(p_name)) # 0
    THEN [params EXCEPT ![ParamIndex(params, Upper(p_name))].list = p_list]
    ELSE Append(params, Param(Upper(p_name), p_list))

\* the loop of add_attributes over attr_to_add.params.items(), from parameter
\* x: the heap (objs, pls) once the parameters of instance to_add are added to
\* instance attr.  The parameter names are upper case, as the parser stores
\* them, so that getattr(attr, p_name + '_paramlist') finds a known parameter.
RECURSIVE AddParams(_, _, _, _)
AddParams(heap, attr, to_add, x) ==
    LET params == heap.objs[to_add].params
        p_name == params[x].name
        p_list == params[x].list
        p_value == heap.pls[p_list]
        p_values == heap.objs[attr].params[
                        ParamIndex(heap.objs[attr].params, Upper(p_name))].list
    IN  IF x > Len(params) THEN heap
        ELSE IF p_value = <<>> THEN AddParams(heap, attr, to_add, x + 1)
        ELSE IF ParamIndex(heap.objs[attr].params, p_name) = 0
             THEN AddParams(
                      [heap EXCEPT !.objs[attr].params = SetParam(@, p_name, p_list)],
                      attr, to_add, x + 1)
        ELSE AddParams(
                 [heap EXCEPT !.pls[p_values] = AppendMissing(@, p_value)],
                 attr, to_add, x + 1)

\* add_attributes(attributes, attr_to_add): the heap and the list once the
\* instance to_add is added to list
RECURSIVE add_attributes(_, _, _, _)
add_attributes(heap, list, to_add, x) ==
    IF x > Len(list) THEN [heap |-> heap, list |-> Append(list, to_add)]
    ELSE IF heap.objs[list[x]].value = heap.objs[to_add].value
         THEN [heap |-> AddParams(heap, list[x], to_add, 1), list |-> list]
    ELSE add_attributes(heap, list, to_add, x + 1)

\* getattr(vcard, name + '_list') for the lower-case name: the children of the
\* record with that name, in order
ListOf(heap, record, name) ==
    SelectSeq(record, LAMBDA id : Lower(heap.objs[id].name) = name)

\* the attributes dict: a list of (name, list) entries in insertion order
EntryIndex(attrs, name) ==
    IF \E x \in DOMAIN attrs : attrs[x].name = name
    THEN CHOOSE x \in DOMAIN attrs : attrs[x].name = name
    ELSE 0

\* for attr in attrlist: add_attributes(attributes[attr1], attr)
RECURSIVE AddList(_, _, _)
AddList(heap, list, attrlist) ==
    IF attrlist = <<>> THEN [heap |-> heap, list |-> list]
    ELSE LET r == add_attributes(heap, list, attrlist[1], 1)
         IN  AddList(r.heap, r.list, Tail(attrlist))

\* for vcard2 in vcards_sorted: the instances of attr1 of every record
RECURSIVE CollectOne(_, _, _, _)
CollectOne(heap, list, vcards_sorted, attr1) ==
    IF vcards_sorted = <<>> THEN [heap |-> heap, list |-> list]
    ELSE LET r == AddList(heap, list, ListOf(heap, vcards_sorted[1], attr1))
         IN  CollectOne(r.heap, r.list, Tail(vcards_sorted), attr1)

\* for child1 in vcard1.getChildren(), from child x
RECURSIVE CollectChildren(_, _, _, _)
CollectChildren(heap, attrs, vcards_sorted, x) ==
    LET vcard1 == vcards_sorted[1]
        attr1 == Lower(heap.objs[vcard1[x]].name)
        r == CollectOne(heap, <<>>, vcards_sorted, attr1)
    IN  IF x > Len(vcard1) THEN [heap |-> heap, attrs |-> attrs]
        ELSE IF attr1 = Lower(NameVersion) \/ EntryIndex(attrs, attr1) # 0
             THEN CollectChildren(heap, attrs, vcards_sorted, x + 1)
        ELSE CollectChildren(r.heap, Append(attrs, [name |-> attr1, list |-> r.list]),
                             vcards_sorted, x + 1)

\* for i in range(len(vcards_sorted)): the first record is processed and
\* deleted from the list; vcard1.fn raises AttributeError when it has no FN
RECURSIVE CollectLoop(_, _, _)
CollectLoop(heap, attrs, vcards_sorted) ==
    IF vcards_sorted = <<>> THEN [err |-> "none", heap |-> heap, attrs |-> attrs]
    ELSE IF ListOf(heap, vcards_sorted[1], Lower(NameFn)) = <<>>
         THEN [err |-> "AttributeError", heap |-> heap, attrs |-> attrs]
    ELSE LET r == CollectChildren(heap, attrs, vcards_sorted, 1)
         IN  CollectLoop(r.heap, r.attrs, Tail(vcards_sorted))

collect_attributes(heap, vcards) == CollectLoop(heap, <<>>, vcards)

\* merge: the heap and the base record once the instances of the list are
\* added to it, each as a new instance with the value of the source and its
\* params
RECURSIVE MergeList(_, _, _)
MergeList(heap, base, list) ==
    IF list = <<>> THEN [heap |-> heap, base |-> base]
    ELSE MergeList(
             [heap EXCEPT !.objs = Append(@, heap.objs[list[1]])],
             Append(base, Len(heap.objs) + 1),
             Tail(list))

\* for vcard_child in vcard_to_merge.getChildren(), from child x, with
\* getattr(vcard_to_merge, vcard_child.name + '_list') in the loop body: the
\* name of a child is upper case and the lists of a record are kept under
\* lower-case names; vobject is no part of the repository, and found tells
\* whether its lookup finds the list under the upper-case name or raises
\* AttributeError
RECURSIVE MergeChildren(_, _, _, _, _)
MergeChildren(heap, base, vcard_to_merge, x, found) ==
    IF x > Len(vcard_to_merge) THEN [err |-> "none", heap |-> heap, base |-> base]
    ELSE IF ~found THEN [err |-> "AttributeError", heap |-> heap, base |-> base]
    ELSE LET r == MergeList(heap, base,
                      ListOf(heap, vcard_to_merge,
                             Lower(heap.objs[vcard_to_merge[x]].name)))
         IN  MergeChildren(r.heap, r.base, vcard_to_merge, x + 1, found)

\* merge(vcard, *vcards_to_merge), vcard being the record base
RECURSIVE merge(_, _, _, _)
merge(heap, base, vcards_to_merge, found) ==
    IF vcards_to_merge = <<>> THEN [err |-> "none", heap |-> heap, base |-> base]
    ELSE LET r == MergeChildren(heap, base, vcards_to_merge[1], 1, found)
         IN  IF r.err # "none" THEN r
             ELSE merge(r.heap, r.base, Tail(vcards_to_merge), found)

(***************************************************************************)
(* normalize                                                               *)
(***************************************************************************)

\* A record given to normalize: whether it has a VERSION, and the values of
\* its FN, N, NOTE, EMAIL and TEL instances in order.  An FN, NOTE, EMAIL or
\* TEL value is a string, an N value is a Name (family, given, suffix).
\* hasattr(vcard, key) is false exactly when the list of key is empty.
Record(version, fn, n, note, email, tel) ==
    [version |-> version, fn |-> fn, n |-> n, note |-> note, email |-> email,
     tel |-> tel]

NoVcard == Record(FALSE, <<>>, <<>>, <<>>, <<>>, <<>>)

\* str(name) for a Name of vobject: prefix, given, additional, family and
\* suffix joined by spaces, prefix and additional being empty
NameStr(name) ==
    <<" ">> \o name.given \o <<" ", " ">> \o name.family \o <<" ">>
        \o (IF name.suffix = None THEN <<>> ELSE name.suffix)

\* '@nowhere.invalid'
sNowhereInvalid ==
    <<"@", "n", "o", "w", "h", "e", "r", "e", ".", "i", "n", "v", "a", "l", "i", "d">>

\* REGEX_EMAIL_WITH_NAME = '^ *"[^"]+" *<(?P<email>[^>]+)> *$': the group
\* email of the match, or None when the value does not match
REGEX_EMAIL_WITH_NAME(s) ==
    LET open == SkipSpaces(s, 1)
        close == IF open <= Len(s) /\ s[open] = "\"" THEN Find(s, "\"", open + 1) ELSE 0
        lt == IF close > open + 1 THEN SkipSpaces(s, close + 1) ELSE 0
        gt == IF lt # 0 /\ lt <= Len(s) /\ s[lt] = "<" THEN Find(s, ">", lt + 1) ELSE 0
    IN  IF gt > lt + 1 /\ SkipSpaces(s, gt + 1) = Len(s) + 1
        THEN SubSeq(s, lt + 1, gt - 1)
        ELSE None

close_parentheses_or_braces(string) ==
    LET closed(op, cl) ==
            IF SkipSpaces(string, 1) <= Len(string) /\ string[SkipSpaces(string, 1)] = op
            THEN From(string, SkipSpaces(string, 1) + 1)
            ELSE string \o <<cl>>
    IN  IF Contains(string, <<"(">>) /\ ~Contains(string, <<")">>) THEN closed("(", ")")
        ELSE IF Contains(string, <<"[">>) /\ ~Contains(string, <<"]">>) THEN closed("[", "]")
        ELSE string

\* the while loop of normalize over vcard.email_list, from position index
RECURSIVE NormalizeEmail(_, _, _)
NormalizeEmail(email_list, index, do_not_remove_name_in_email) ==
    IF index > Len(email_list) THEN email_list
    ELSE LET value == Lower(Strip(email_list[index]))
             m_match == REGEX_EMAIL_WITH_NAME(value)
         IN  IF EndsWith(value, sNowhereInvalid)
             THEN NormalizeEmail(
                      Upto(email_list, index) \o From(email_list, index + 1),
                      index, do_not_remove_name_in_email)
             ELSE NormalizeEmail(
                      [email_list EXCEPT ![index] =
                          IF m_match # None /\ ~do_not_remove_name_in_email
                          THEN m_match ELSE value],
                      index + 1, do_not_remove_name_in_email)

\* the body of the loop of normalize over vcard.tel_list
NormalizeTel(value0) ==
    LET value == Replace(Strip(value0), <<" ">>, <<>>)
    IN  IF OPTION_FRENCH_TWEAKS /\ StartsWith(value, <<"+", "3", "3">>)
        THEN Replace(value, <<"+", "3", "3">>, <<"0">>)
        ELSE value

\* the note values once inner is moved to the note
AddNote(note, inner) ==
    IF note # <<>> THEN [note EXCEPT ![1] = @ \o <<"\n">> \o inner]
    ELSE <<inner>>

\* the loop of normalize that moves the bracketed part of the names of
\* name_key to the note, from instance x of the list
RECURSIVE MoveToNote(_, _, _)
MoveToNote(v, name_key, x) ==
    LET list == IF name_key = PropN THEN v.n ELSE v.fn
    IN  IF x > Len(list) THEN v
        ELSE LET str == IF name_key = PropN THEN NameStr(list[x]) ELSE list[x]
                 value == close_parentheses_or_braces(
                              Strip(Replace(str, <<" ", " ">>, <<" ">>)))
                 inner == Replace(Replace(Replace(Replace(
                              Strip(BracketGroup(value)),
                              <<"(">>, <<>>), <<")">>, <<>>), <<"[">>, <<>>), <<"]">>, <<>>)
                 outer == Strip(BracketSub(value))
             IN  IF BracketSearch(value) = 0 THEN MoveToNote(v, name_key, x + 1)
                 ELSE MoveToNote(
                          [v EXCEPT !.n = IF name_key = PropN
                                          THEN [@ EXCEPT ![x] = build_formatted_name(outer)]
                                          ELSE @,
                                    !.fn = IF name_key = PropN THEN @
                                           ELSE [@ EXCEPT ![x] = outer],
                                    !.note = AddNote(@, inner)],
                          name_key, x + 1)

\* normalize(vcard, selected_name, do_not_overwrite_names,
\* mv_name_parenth_braces_to_note, do_not_remove_name_in_email): the record
\* as the call leaves it
normalize(v0, selected_name, do_not_overwrite_names, mv_name_parenth_braces_to_note, do_not_remove_name_in_email) ==
    LET v1 == [v0 EXCEPT !.version = FALSE]
        v2 == IF do_not_overwrite_names THEN v1
              ELSE [v1 EXCEPT !.fn = <<>>, !.n = <<>>]
        v3 == IF v2.fn = <<>> THEN [v2 EXCEPT !.fn = <<selected_name>>] ELSE v2
        v4 == IF v3.n = <<>>
              THEN [v3 EXCEPT !.n = <<build_formatted_name(selected_name)>>]
              ELSE v3
        v5 == IF mv_name_parenth_braces_to_note
              THEN MoveToNote(MoveToNote(v4, PropFn, 1), PropN, 1)
              ELSE v4
        v6 == [v5 EXCEPT !.email = NormalizeEmail(@, 1, do_not_remove_name_in_email)]
    IN  [v6 EXCEPT !.tel = [x \in DOMAIN @ |-> NormalizeTel(@[x])]]

(***************************************************************************)
(* sanitize_name, build_name_from_email and collect_vcard_names            *)
(***************************************************************************)

\* str.title() on ASCII: a letter that follows a letter is lowered, any other
\* letter is raised
Title(s) ==
    [k \in 1..Len(s) |->
        IF k > 1 /\ IsLetter(s[k - 1]) THEN LowerChar(s[k]) ELSE UpperChar(s[k])]

\* REGEX_ICE = r'\b(ICE[0-9]*)\b' with re.IGNORECASE: the last position of
\* the match that starts at k, or 0
IceEnd(s, k) ==
    LET digits == {e \in k + 2..Len(s) : \A x \in k + 3..e : IsDigit(s[x])}
        e == CHOOSE x \in digits : \A y \in digits : y <= x
    IN  IF /\ k + 2 <= Len(s)
           /\ Lower(SubSeq(s, k, k + 2)) = <<"i", "c", "e">>
           /\ (k = 1 \/ ~IsWordChar(s[k - 1]))
           /\ (e = Len(s) \/ ~IsWordChar(s[e + 1]))
        THEN e
        ELSE 0

\* REGEX_ICE.sub('', s), from position k
RECURSIVE REGEX_ICE_sub(_, _)
REGEX_ICE_sub(s, k) ==
    IF k > Len(s) THEN <<>>
    ELSE IF IceEnd(s, k) # 0 THEN REGEX_ICE_sub(s, IceEnd(s, k) + 1)
    ELSE <<s[k]>> \o REGEX_ICE_sub(s, k + 1)

\* re.sub(r'[\(\)\[\]]', '', s)
RemoveBrackets(s) ==
    Replace(Replace(Replace(Replace(s, <<"(">>, <<>>), <<")">>, <<>>),
                    <<"[">>, <<>>), <<"]">>, <<>>)

sanitize_name(name) ==
    LET sanitized ==
            Title(Strip(Replace(Replace(Replace(REGEX_ICE_sub(name, 1),
                <<".">>, <<" ">>), <<" ", " ">>, <<" ">>), <<" ", " ">>, <<" ">>)))
        inner == Title(RemoveBrackets(Strip(BracketGroup(name))))
        outer == Title(Strip(BracketSub(name)))
    IN  IF BracketSearch(name) # 0
           /\ (inner = outer \/ token_sort_ratio_is_100(inner, outer))
        THEN outer
        ELSE sanitized

EMAIL_USERS_ADD_DOMAIN ==
    { <<"c", "o", "n", "t", "a", "c", "t">>,
      <<"i", "n", "f", "o">>,
      <<"a", "d", "m", "i", "n">>,
      <<"h", "e", "l", "l", "o">>,
      <<"j", "o", "b">>,
      <<"q", "u", "e", "s", "t", "i", "o", "n">>,
      <<"s", "u", "p", "p", "o", "r", "t">>,
      <<"s", "e", "r", "v", "i", "c", "e">>,
      <<"s", "a", "l", "e", "s">>,
      <<"d", "e", "a", "l">>,
      <<"u", "n", "s", "u", "b", "s", "c", "r", "i", "b", "e">>,
      <<"r", "e", "t", "u", "r", "n">>,
      <<"c", "r", "e", "d", "i", "t">>,
      <<"r", "e", "c", "r", "u", "t", "e">>,
      <<"d", "e", "s", "i", "n", "s", "c", "r", "i", "p", "t", "i", "o", "n">>,
      <<"s", "a", "v">>,
      <<"s", "e", "r", "v", "i", "c", "e", "c", "o", "m", "m", "e", "r", "c", "i", "a", "l">>,
      <<"r", "e", "l", "a", "t", "i", "o", "n", "c", "l", "i", "e", "n", "t">> }

\* 'nowhere.invalid'
sNowhereDotInvalid == Tail(sNowhereInvalid)

\* REGEX_ANY_DASH_OR_UNDERSCORE.sub(' ', s) and REGEX_ANY_NUMBER.sub('', s)
REGEX_ANY_DASH_OR_UNDERSCORE_sub(s) ==
    [k \in 1..Len(s) |-> IF s[k] \in {"_", "-"} THEN " " ELSE s[k]]

RECURSIVE REGEX_ANY_NUMBER_sub(_)
REGEX_ANY_NUMBER_sub(s) ==
    IF s = <<>> THEN <<>>
    ELSE IF IsDigit(s[1]) THEN REGEX_ANY_NUMBER_sub(Tail(s))
    ELSE <<s[1]>> \o REGEX_ANY_NUMBER_sub(Tail(s))

\* REGEX_WITHOUT_EXTENSION = '(.+)\.[a-zA-Z]+$', .sub('\1', s): a last dot
\* that is not the first character and is followed by letters only is cut
\* with these letters
REGEX_WITHOUT_EXTENSION_sub(s) ==
    LET dots == {k \in 2..Len(s) - 1 :
                    s[k] = "." /\ \A x \in k + 1..Len(s) : IsLetter(s[x])}
    IN  IF dots = {} THEN s ELSE Upto(s, CHOOSE k \in dots : TRUE)

build_name_from_email(email) ==
    LET parts == SplitBy(Strip(email), <<"@">>)
        email_user == parts[1]
        email_domain == parts[2]
        name == REGEX_ANY_DASH_OR_UNDERSCORE_sub(REGEX_ANY_NUMBER_sub(email_user))
        prefixed ==
            IF \E u \in EMAIL_USERS_ADD_DOMAIN : StartsWith(Lower(name), u)
            THEN REGEX_WITHOUT_EXTENSION_sub(
                     REGEX_ANY_DASH_OR_UNDERSCORE_sub(email_domain))
                     \o <<" ", "-", " ">> \o name
            ELSE name
    IN  IF EndsWith(Strip(Lower(email)), sNowhereDotInvalid) THEN Raise("ValueError")
        ELSE IF Len(parts) # 2 THEN Raise("ValueError")
        ELSE Return(sanitize_name(Replace(prefixed, <<".">>, <<" ">>)))

\* REGEX_ONY_NON_ALPHANUM = '^[ \t]*[^\w]*[ \t]*$': no character of \w
REGEX_ONY_NON_ALPHANUM(s) == \A k \in 1..Len(s) : ~IsWordChar(s[k])

\* REGEX_NAME_IN_EMAIL = '^ *"(?P<name>[^"]+)" *<[^>]+> *$': the group name
\* of the match, or None when the value does not match
REGEX_NAME_IN_EMAIL(s) ==
    LET open == SkipSpaces(s, 1)
        close == IF open <= Len(s) /\ s[open] = "\"" THEN Find(s, "\"", open + 1) ELSE 0
        lt == IF close > open + 1 THEN SkipSpaces(s, close + 1) ELSE 0
        gt == IF lt # 0 /\ lt <= Len(s) /\ s[lt] = "<" THEN Find(s, ">", lt + 1) ELSE 0
    IN  IF gt > lt + 1 /\ SkipSpaces(s, gt + 1) = Len(s) + 1
        THEN SubSeq(s, open + 1, close - 1)
        ELSE None

\* if not name in available_names: available_names.append(name)
AppendNew(available_names, name) ==
    IF \E x \in DOMAIN available_names : available_names[x] = name
    THEN available_names
    ELSE Append(available_names, name)

\* value.count('@')
CountAt(s) == Cardinality({k \in 1..Len(s) : s[k] = "@"})

\* A record given to collect_vcard_names: the values of its FN, N, EMAIL, ORG
\* and TEL instances in order.  An ORG value is a list of strings.
NamedRecord(fn, n, email, org, tel) ==
    [fn |-> fn, n |-> n, email |-> email, org |-> org, tel |-> tel]

\* the loop over the instances of 'fn' (strs are their str(attr_n.value)) and
\* then of 'n', from instance x
RECURSIVE NamesOfNameKeys(_, _, _)
NamesOfNameKeys(strs, x, available_names) ==
    IF x > Len(strs) THEN Return(available_names)
    ELSE LET value == close_parentheses_or_braces(Strip(strs[x]))
             built == build_name_from_email(value)
         IN  IF REGEX_ONY_NON_ALPHANUM(value)
             THEN NamesOfNameKeys(strs, x + 1, available_names)
             ELSE IF CountAt(value) = 1
                  THEN IF built.err # "none" THEN built
                       ELSE NamesOfNameKeys(strs, x + 1,
                                            AppendNew(available_names, built.val))
             ELSE NamesOfNameKeys(strs, x + 1,
                                  AppendNew(available_names, sanitize_name(value)))

\* the loop that takes the display names of the addresses
RECURSIVE NamesInEmails(_, _, _)
NamesInEmails(email_list, x, available_names) ==
    IF x > Len(email_list) THEN available_names
    ELSE LET n_matches == REGEX_NAME_IN_EMAIL(email_list[x])
         IN  IF ~EndsWith(Strip(Lower(email_list[x])), sNowhereDotInvalid)
                /\ n_matches # None
             THEN NamesInEmails(email_list, x + 1,
                                AppendNew(available_names, sanitize_name(n_matches)))
             ELSE NamesInEmails(email_list, x + 1, available_names)

\* the loop that builds a name from every address
RECURSIVE NamesBuiltFromEmails(_, _, _)
NamesBuiltFromEmails(email_list, x, available_names) ==
    IF x > Len(email_list) THEN Return(available_names)
    ELSE LET built == build_name_from_email(email_list[x])
         IN  IF built.err # "none" THEN built
             ELSE NamesBuiltFromEmails(email_list, x + 1,
                                       AppendNew(available_names, built.val))

\* the loop over the items of the ORG values, flat is their concatenation
RECURSIVE NamesOfOrgs(_, _, _)
NamesOfOrgs(flat, x, available_names) ==
    IF x > Len(flat) THEN available_names
    ELSE IF REGEX_ONY_NON_ALPHANUM(Strip(flat[x]))
         THEN NamesOfOrgs(flat, x + 1, available_names)
         ELSE NamesOfOrgs(flat, x + 1,
                          AppendNew(available_names, sanitize_name(flat[x])))

RECURSIVE Flat(_)
Flat(lists) == IF lists = <<>> THEN <<>> ELSE lists[1] \o Flat(Tail(lists))

\* the ORG loop when no name was found yet, then the first TEL when there is
\* still none
NamesOfOrgsAndTel(vcard, available_names) ==
    LET from_orgs ==
            IF available_names = <<>>
            THEN NamesOfOrgs(Flat(vcard.org), 1, available_names)
            ELSE available_names
    IN  IF from_orgs = <<>> /\ vcard.tel # <<>>
        THEN <<<<"t", "e", "l", "_">> \o Strip(vcard.tel[1])>>
        ELSE from_orgs

\* the names built from the addresses when the names and the display names
\* gave none, then the ORG and TEL steps
NamesOfEmailsOrgsAndTel(vcard, available_names) ==
    LET from_emails ==
            IF available_names = <<>>
            THEN NamesBuiltFromEmails(vcard.email, 1, available_names)
            ELSE Return(available_names)
    IN  IF from_emails.err # "none" THEN from_emails
        ELSE Return(NamesOfOrgsAndTel(vcard, from_emails.val))

collect_vcard_names(vcard) ==
    LET strs == vcard.fn \o [x \in DOMAIN vcard.n |-> NameStr(vcard.n[x])]
        from_names == NamesOfNameKeys(strs, 1, <<>>)
    IN  IF from_names.err # "none" THEN from_names
        ELSE NamesOfEmailsOrgsAndTel(
                 vcard, NamesInEmails(vcard.email, 1, from_names.val))

(***************************************************************************)
(* write_vcard_to_file                                                     *)
(***************************************************************************)

\* vcard.serialize(): the text of a record, here of its formatted name alone
serialize(vcard) ==
    sBeginVcard \o <<"\n", "F", "N", ":">> \o vcard.fn \o <<"\n">> \o sEndVcard
        \o <<"\n">>

\* a file system where no path exists
never_exists(d, file_path) == FALSE

\* os.path.exists(file_path) on the file system d
exists(d, file_path) == file_path \in DOMAIN d

\* open(file_path, 'w'): the file is created, or emptied when it exists
OpenW(d, file_path) ==
    [f \in DOMAIN d \cup {file_path} |-> IF f = file_path THEN <<>> ELSE d[f]]

\* write_vcard_to_file(vcard, file_path) on the file system d: the file
\* system it leaves and the exception it raises, io being what the
\* operating system does with the open and the write
write_vcard_to_file(d, vcard, file_path, io) ==
    LET file_content == serialize(vcard)
    IN  IF exists(d, file_path) THEN [disk |-> d, err |-> "RuntimeError"]
        ELSE IF io = "open fails" THEN [disk |-> d, err |-> "OSError"]
        ELSE IF io = "write fails"
             THEN [disk |-> OpenW(d, file_path), err |-> "OSError"]
        ELSE [disk |-> [OpenW(d, file_path) EXCEPT ![file_path] = file_content],
              err |-> "none"]

(***************************************************************************)
(* get_vcards_from_files                                                   *)
(***************************************************************************)

\* str(index) for a natural number
RECURSIVE IntStr(_)
IntStr(n) ==
    LET digit == <<"0", "1", "2", "3", "4", "5", "6", "7", "8", "9">>
    IN  IF n < 10 THEN <<digit[n + 1]>>
        ELSE IntStr(n \div 10) \o <<digit[(n % 10) + 1]>>

\* `name in vcards` for the dict vcards, a list of (key, vcard) pairs in
\* insertion order
HasKey(d, name) == \E x \in DOMAIN d : d[x].key = name

\* the loop `while name_indexed in vcards`, index being the last index tried
RECURSIVE NameIndexed(_, _, _)
NameIndexed(d, selected_name, index) ==
    LET name_indexed == selected_name \o <<"(">> \o IntStr(index + 1) \o <<")">>
    IN  IF HasKey(d, name_indexed)
        THEN NameIndexed(d, selected_name, index + 1)
        ELSE name_indexed

\* the key a record named selected_name is stored under in the dict d
KeyFor(d, selected_name) ==
    IF HasKey(d, selected_name) THEN NameIndexed(d, selected_name, 0)
    ELSE selected_name

\* the rest of the body of the loop once the name is selected: the record
\* is normalized and stored under a key of its own
StoreSelected(d, v, selected_name, do_not_overwrite_names, mv_name_parenth_braces_to_note, do_not_remove_name_in_email) ==
    IF selected_name.err # "none" THEN [vcards |-> d, err |-> selected_name.err]
    ELSE [vcards |->
              Append(d, [key |-> KeyFor(d, selected_name.val),
                         vcard |-> normalize(v, selected_name.val,
                                             do_not_overwrite_names,
                                             mv_name_parenth_braces_to_note,
                                             do_not_remove_name_in_email)]),
          err |-> "none"]

\* the body of the loop `for vcard in vcard_list`: the dict with the record
\* added, or the exception raised
AddParsed(d, v, do_not_overwrite_names, mv_name_parenth_braces_to_note, do_not_remove_name_in_email) ==
    LET available_names == collect_vcard_names(v)
    IN  IF available_names.err # "none"
        THEN [vcards |-> d, err |-> available_names.err]
        ELSE StoreSelected(d, v, select_most_relevant_name(available_names.val),
                           do_not_overwrite_names, mv_name_parenth_braces_to_note,
                           do_not_remove_name_in_email)

(***************************************************************************)
(* get_vcards_groups                                                       *)
(***************************************************************************)

VARIABLES
    vcards,              \* the vcards dict, in insertion order
    no_match_approx,     \* OPTION_NO_MATCH_APPROX
    startswith,          \* OPTION_MATCH_APPROX_STARTSWITH
    groups,              \* mappings['groups']: group key -> list of keys
    vcard_group,         \* mappings['vcard_group']: key -> group key
    attributes,          \* mappings['attributes']: a_key -> list of (value, keys)
    pc,                  \* where get_vcards_groups is
    i,                   \* the record the first loop is at
    a,                   \* the attribute spec the first loop is at
    a_values,            \* the values of the set a_values not yet iterated
    local_group,         \* the local variable vcard_group
    p,                   \* the name the outer fuzzy loop is at
    q,                   \* the name the inner fuzzy loop is at
    vcards_not_grouped,  \* the list returned with groups
    err,                 \* the exception raised, or "none"
    run,                 \* 1 in the first run on the working set, 2 in the second
    first,               \* how the first run ended
    names,               \* the argument of select_most_relevant_name
    selected,            \* what select_most_relevant_name(names) gave
    vcard,               \* the record normalize works on
    args,                \* the arguments of the call under way
    module_options,      \* the module attributes of vcardlib set at run time
    file,                \* the physical lines of the file given to the fixer
    fixed,               \* what fix_and_convert_to_v3 returned for file
    refixed,             \* what it returned for its own output
    objects,             \* the property instances (ContentLine objects)
    plists,              \* the parameter value lists (list objects)
    records,             \* the records given to the merger: lists of instances
    collected,           \* the dict collect_attributes returns
    result,              \* what the library call under way returned or raised
    disk                 \* the paths that exist, each with its content

\* the variables of the normalizer, the fixer and the merger
lib_vars == <<vcard, args, module_options, file, fixed, refixed, objects, plists,
              records, collected, result, disk>>

vars == <<vcards, no_match_approx, startswith, groups, vcard_group, attributes,
          pc, i, a, a_values, local_group, p, q, vcards_not_grouped, err, run,
          first, names, selected, lib_vars>>

\* no call of the normalizer, the fixer or the merger is under way
LibIdle ==
    /\ vcard = NoVcard
    /\ args = <<>>
    /\ module_options = ModuleOptions
    /\ file = <<>>
    /\ fixed = <<>>
    /\ refixed = <<>>
    /\ objects = <<>>
    /\ plists = <<>>
    /\ records = <<>>
    /\ collected = <<>>
    /\ result = Return(None)
    /\ disk = <<>>

\* the state get_vcards_groups starts in
Start(vs) ==
    /\ vcards = vs
    /\ groups = <<>>
    /\ vcard_group = <<>>
    /\ attributes = <<>>
    /\ i = 1
    /\ a = 1
    /\ a_values = {}
    /\ local_group = None
    /\ p = 1
    /\ q = 2
    /\ vcards_not_grouped = <<>>
    /\ err = "none"

Init ==
    /\ \E vs \in WorkingSets : Start(vs)
    /\ pc = "record"
    /\ no_match_approx \in BOOLEAN
    /\ startswith \in BOOLEAN
    /\ run = 1
    /\ first = [status |-> "none"]
    /\ names = <<>>
    /\ selected = Return(None)
    /\ LibIdle

\* the index of a_key: its (value, keys) entries in insertion order
IndexOf(attrs, a_key) == IF a_key \in DOMAIN attrs THEN attrs[a_key] ELSE <<>>

\* the position of value in an index, or 0
EntryOf(index, value) ==
    IF \E x \in DOMAIN index : index[x].value = value
    THEN CHOOSE x \in DOMAIN index : index[x].value = value
    ELSE 0

\* the raise of an exception out of get_vcards_groups
Fail(e) ==
    /\ pc' = "failed"
    /\ err' = e

\* for key, vcard in vcards.items(): the next record, or the end of the loop
NextRecord ==
    /\ pc = "record"
    /\ UNCHANGED lib_vars
    /\ IF i > Len(vcards)
       THEN /\ pc' = "fuzzy"
            /\ UNCHANGED <<local_group, a>>
       ELSE /\ local_group' = IF vcards[i].key \in DOMAIN groups
                              THEN ListObject ELSE None
            /\ a' = 1
            /\ pc' = "attr"
    /\ UNCHANGED <<vcards, no_match_approx, startswith, groups, vcard_group,
                   attributes, i, a_values, p, q, vcards_not_grouped, err, run,
                   first, names, selected>>

\* for attr in OPTION_MATCH_ATTRIBUTES: collect the values of the next spec
NextAttr ==
    /\ pc = "attr"
    /\ UNCHANGED lib_vars
    /\ IF a > Len(OPTION_MATCH_ATTRIBUTES)
       THEN /\ i' = i + 1
            /\ pc' = "record"
            /\ UNCHANGED <<a, a_values, attributes>>
       ELSE LET attr == OPTION_MATCH_ATTRIBUTES[a]
                values == collect_values(vcards[i], attr)
            IN  IF values = {}
                THEN /\ a' = a + 1
                     /\ UNCHANGED <<i, pc, a_values, attributes>>
                ELSE /\ a_values' = values
                     /\ attributes' = Put(attributes, AKey(attr),
                                          IndexOf(attributes, AKey(attr)))
                     /\ pc' = "value"
                     /\ UNCHANGED <<i, a>>
    /\ UNCHANGED <<vcards, no_match_approx, startswith, groups, vcard_group,
                   local_group, p, q, vcards_not_grouped, err, run, first,
                   names, selected>>

\* for a_value in a_values: one value of the set, in the order the set gives
MapValue ==
    /\ pc = "value"
    /\ UNCHANGED lib_vars
    /\ IF a_values = {}
       THEN /\ a' = a + 1
            /\ pc' = "attr"
            /\ UNCHANGED <<a_values, attributes, groups, vcard_group, local_group,
                           err>>
       ELSE \E a_value \in a_values :
            LET key == vcards[i].key
                a_key == AKey(OPTION_MATCH_ATTRIBUTES[a])
                index == attributes[a_key]
                e == EntryOf(index, a_value)
            IN  /\ a_values' = a_values \ {a_value}
                /\ UNCHANGED a
                /\ IF e = 0
                   THEN /\ attributes' = [attributes EXCEPT ![a_key] =
                               Append(@, [value |-> a_value, keys |-> <<key>>])]
                        /\ UNCHANGED <<groups, vcard_group, local_group, pc, err>>
                   ELSE IF key \in Range(index[e].keys)
                   THEN UNCHANGED <<attributes, groups, vcard_group, local_group,
                                    pc, err>>
                   ELSE LET matched_vcard_key == index[e].keys[1]
                            matched_vcard_group == Get(vcard_group, matched_vcard_key)
                            r == group_keys(groups, vcard_group, key,
                                            matched_vcard_key, local_group,
                                            matched_vcard_group)
                        IN  /\ attributes' = [attributes EXCEPT ![a_key][e].keys =
                                                  Append(@, key)]
                            /\ groups' = r.groups
                            /\ vcard_group' = r.vcard_group
                            /\ IF r.err = "none"
                               THEN /\ local_group' = r.ret
                                    /\ UNCHANGED <<pc, err>>
                               ELSE /\ Fail(r.err)
                                    /\ UNCHANGED local_group
    /\ UNCHANGED <<vcards, no_match_approx, startswith, i, p, q,
                   vcards_not_grouped, run, first, names, selected>>

\* after the first loop: the fuzzy search starts, is skipped, or fails on
\* mappings['attributes']['names']
StartFuzzy ==
    /\ pc = "fuzzy"
    /\ UNCHANGED lib_vars
    /\ IF ~no_match_approx /\ AttrNames \notin Range(OPTION_MATCH_ATTRIBUTES)
       THEN pc' = "collect" /\ UNCHANGED err
       ELSE IF ~no_match_approx
       THEN IF AttrNames \in DOMAIN attributes
            THEN pc' = "pair" /\ UNCHANGED err
            ELSE Fail("KeyError")
       ELSE pc' = "collect" /\ UNCHANGED err
    /\ p' = 1
    /\ q' = 2
    /\ UNCHANGED <<vcards, no_match_approx, startswith, groups, vcard_group,
                   attributes, i, a, a_values, local_group, vcards_not_grouped,
                   run, first, names, selected>>

\* the two fuzzy loops: name p of the names index against name q after it
FuzzyPair ==
    /\ pc = "pair"
    /\ UNCHANGED lib_vars
    /\ LET index == attributes[AttrNames]
       IN  IF p > Len(index)
           THEN /\ pc' = "collect"
                /\ UNCHANGED <<p, q, groups, vcard_group, err>>
           ELSE IF q > Len(index)
           THEN /\ p' = p + 1
                /\ q' = p + 2
                /\ UNCHANGED <<pc, groups, vcard_group, err>>
           ELSE /\ UNCHANGED p
                /\ q' = q + 1
                /\ IF match_approx(index[p].value, index[q].value, startswith)
                   THEN LET keys1 == index[p].keys
                            keys2 == index[q].keys
                            key1 == keys1[1]
                            key2 == IF key1 \notin Range(keys2) THEN keys2[1]
                                    ELSE key1
                            r == group_keys(groups, vcard_group, key1, key2,
                                            Get(vcard_group, key1),
                                            Get(vcard_group, key2))
                        IN  /\ groups' = r.groups
                            /\ vcard_group' = r.vcard_group
                            /\ IF r.err = "none" THEN UNCHANGED <<pc, err>>
                               ELSE Fail(r.err)
                   ELSE UNCHANGED <<pc, groups, vcard_group, err>>
    /\ UNCHANGED <<vcards, no_match_approx, startswith, attributes, i, a,
                   a_values, local_group, vcards_not_grouped, run, first, names, selected>>

\* NotGrouped with its loop starting at the second record
NotGroupedSkipsFirst(vs, vg) ==
    LET kept == SelectSeq(SubSeq(vs, 2, Len(vs)), LAMBDA v : v.key \notin DOMAIN vg)
    IN  [x \in DOMAIN kept |-> kept[x].key]

\* the keys of vcards that are no key of mappings['vcard_group'], in order
NotGrouped(vs, vg) ==
    LET kept == SelectSeq(vs, LAMBDA v : v.key \notin DOMAIN vg)
    IN  [x \in DOMAIN kept |-> kept[x].key]

\* the last loop and the return of (mappings['groups'], vcards_not_grouped)
Collect ==
    /\ pc = "collect"
    /\ UNCHANGED lib_vars
    /\ vcards_not_grouped' = NotGrouped(vcards, vcard_group)
    /\ pc' = "done"
    /\ UNCHANGED <<vcards, no_match_approx, startswith, groups, vcard_group,
                   attributes, i, a, a_values, local_group, p, q, err, run, first,
                   names, selected>>

\* how a run ended: what it returned, or the exception it raised
Outcome ==
    IF pc = "done"
    THEN [status |-> "returned", groups |-> groups,
          vcards_not_grouped |-> vcards_not_grouped]
    ELSE [status |-> "raised", err |-> err]

\* the program is run a second time, on the same records in any order
Rerun ==
    /\ pc \in {"done", "failed"}
    /\ UNCHANGED lib_vars
    /\ run = 1
    /\ run' = 2
    /\ first' = [outcome |-> Outcome, vcards |-> vcards, status |-> "ended"]
    /\ \E vs \in Orderings(vcards) :
          /\ vcards' = vs
          /\ groups' = <<>>
          /\ vcard_group' = <<>>
          /\ attributes' = <<>>
          /\ pc' = "record"
          /\ i' = 1
          /\ a' = 1
          /\ a_values' = {}
          /\ local_group' = None
          /\ p' = 1
          /\ q' = 2
          /\ vcards_not_grouped' = <<>>
          /\ err' = "none"
    /\ UNCHANGED <<no_match_approx, startswith, names, selected>>

Next ==
    \/ NextRecord
    \/ NextAttr
    \/ MapValue
    \/ StartFuzzy
    \/ FuzzyPair
    \/ Collect
    \/ Rerun

Spec == Init /\ [][Next]_vars

(***************************************************************************)
(* select_most_relevant_name on its own                                    *)
(***************************************************************************)

\* most names in a list given to select_most_relevant_name
MaxNames == 3

\* the names the lists are made of: '', 'ab cd', 'ab cd (ko)', 'ko', 'a=b'
NameUniverse ==
    { <<>>, sAbCd, sAbCd \o <<" ", "(">> \o sKo \o <<")">>, sKo,
      <<"a", "=", "b">> }

NameLists == UNION {[1..n -> NameUniverse] : n \in 0..MaxNames}

InitSelect ==
    /\ Start(<<>>)
    /\ no_match_approx = FALSE
    /\ startswith = FALSE
    /\ run = 1
    /\ first = [status |-> "none"]
    /\ names \in NameLists
    /\ selected = Return(None)
    /\ pc = "select"
    /\ LibIdle

\* selected_name = select_most_relevant_name(names), or the exception it raises
Select ==
    /\ pc = "select"
    /\ UNCHANGED lib_vars
    /\ selected' = select_most_relevant_name(names)
    /\ pc' = "selected"
    /\ UNCHANGED <<vcards, no_match_approx, startswith, groups, vcard_group,
                   attributes, i, a, a_values, local_group, p, q,
                   vcards_not_grouped, err, run, first, names>>

SpecSelect == InitSelect /\ [][Select]_vars

(***************************************************************************)
(* normalize, on every record of a bounded set and every setting of its    *)
(* options                                                                 *)
(***************************************************************************)

\* most EMAIL instances and most TEL instances of a record given to normalize
MaxEmails == 2

MaxTels == 2

\* 'ab cd (ko)', the name given to normalize
sAbCdKo == sAbCd \o <<" ", "(">> \o sKo \o <<")">>

\* 'ab (cd) [ko]', a name with two bracketed segments
sAbCdKoTwice ==
    <<"a", "b", " ", "(", "c", "d", ")", " ", "[">> \o sKo \o <<"]">>

\* the names select_most_relevant_name may have given
SelectedNames == { sAbCdKo, sAbCdKoTwice }

\* the EMAIL values: 'a@e', ' A@e ', 'nobody@nowhere.invalid', '"ko" <a@e>',
\* '"ko" <nobody@nowhere.invalid>' and '"ko" < a@e>'
sNobody == <<"n", "o", "b", "o", "d", "y">> \o sNowhereInvalid

Display(addr) == <<"\"">> \o sKo \o <<"\"", " ", "<">> \o addr \o <<">">>

EmailValues ==
    { sMailA, <<" ", "A", "@", "e", " ">>, sNobody, Display(sMailA),
      Display(sNobody), Display(<<" ">> \o sMailA) }

\* the TEL values: '01', ' 0 1 ' and '0<tab>1'
TelValues == { sTel1, <<" ", "0", " ", "1", " ">>, <<"0", "\t", "1">> }

\* the FN lists and the N lists of the records: none, one or two instances
FnLists == { <<>>, <<sAbCd>>, <<sAbCd, sKo>> }

NLists ==
    { <<>>, <<build_formatted_name(sAbCd)>>,
      <<build_formatted_name(sAbCd), build_formatted_name(sAbCdKo)>> }

Lists(values, n) == UNION {[1..k -> values] : k \in 0..n}

InitNormalize ==
    /\ Start(<<>>)
    /\ no_match_approx = FALSE
    /\ startswith = FALSE
    /\ run = 1
    /\ first = [status |-> "none"]
    /\ names = <<>>
    /\ selected = Return(None)
    /\ pc = "normalize"
    /\ \E fn \in FnLists, n \in NLists, email \in Lists(EmailValues, MaxEmails),
          tel \in Lists(TelValues, MaxTels) :
          vcard = Record(TRUE, fn, n, <<>>, email, tel)
    /\ \E o1, o2, o3 \in BOOLEAN, selected_name \in SelectedNames :
          args = [selected_name |-> selected_name,
                  do_not_overwrite_names |-> o1,
                  mv_name_parenth_braces_to_note |-> o2,
                  do_not_remove_name_in_email |-> o3,
                  vcard |-> vcard]
    /\ module_options = ModuleOptions
    /\ file = <<>>
    /\ fixed = <<>>
    /\ refixed = <<>>
    /\ objects = <<>>
    /\ plists = <<>>
    /\ records = <<>>
    /\ collected = <<>>
    /\ result = Return(None)
    /\ disk = <<>>

\* normalize(vcard, selected_name, ...) as get_vcards_from_files calls it: the
\* record is changed in place
Normalize ==
    /\ pc = "normalize"
    /\ vcard' = normalize(vcard, args.selected_name, args.do_not_overwrite_names,
                          args.mv_name_parenth_braces_to_note,
                          args.do_not_remove_name_in_email)
    /\ pc' = "normalized"
    /\ UNCHANGED <<vcards, no_match_approx, startswith, groups, vcard_group,
                   attributes, i, a, a_values, local_group, p, q,
                   vcards_not_grouped, err, run, first, names, selected, args,
                   module_options, file, fixed, refixed, objects, plists, records,
                   collected, result, disk>>

SpecNormalize == InitNormalize /\ [][Normalize]_vars

(***************************************************************************)
(* The driver's comma option and fix_and_convert_to_v3, on every file of a *)
(* bounded set of lines                                                    *)
(***************************************************************************)

\* most lines of a file given to the fixer
MaxLines == 2

\* the lines the files are made of
\* 'begin:vcard'
lBegin == <<"b", "e", "g", "i", "n", ":", "v", "c", "a", "r", "d">>

\* 'fn:a,b'
lComma == <<"f", "n", ":", "a", ",", "b">>

\* 'fn:a,,b'
lTwoCommas == <<"f", "n", ":", "a", ",", ",", "b">>

\* 'fn:a\,b'
lEscapedComma == <<"f", "n", ":", "a", "\\", ",", "b">>

\* 'tel;home;work:1'
lTypes == <<"t", "e", "l", ";", "h", "o", "m", "e", ";", "w", "o", "r", "k", ":", "1">>

\* 'note;quoted-printable:a,='
lQuotedPrintable == <<"n", "o", "t", "e", ";", "q", "u", "o", "t", "e", "d", "-", "p", "r", "i", "n", "t", "a", "b", "l", "e", ":", "a", ",", "=">>

\* ' b,c'
lFragment == <<" ", "b", ",", "c">>

\* 'photo;jpeg:u'
lJpeg == <<"p", "h", "o", "t", "o", ";", "j", "p", "e", "g", ":", "u">>

\* 'photo;encoding=base64;png:u'
lBase64 == <<"p", "h", "o", "t", "o", ";", "e", "n", "c", "o", "d", "i", "n", "g", "=", "b", "a", "s", "e", "6", "4", ";", "p", "n", "g", ":", "u">>

\* 'note;encoding=quoted-printable;charset=x:a'
lCharset == <<"n", "o", "t", "e", ";", "e", "n", "c", "o", "d", "i", "n", "g", "=", "q", "u", "o", "t", "e", "d", "-", "p", "r", "i", "n", "t", "a", "b", "l", "e", ";", "c", "h", "a", "r", "s", "e", "t", "=", "x", ":", "a">>

\* 'photo;encoding=base64:u'
lBase64Alone ==
    <<"p", "h", "o", "t", "o", ";", "e", "n", "c", "o", "d", "i", "n", "g",
      "=", "b", "a", "s", "e", "6", "4", ":", "u">>

\* 'note;x:ENCODING=QUOTED-PRINTABLE'
lValueNamesEncoding ==
    <<"n", "o", "t", "e", ";", "x", ":">> \o sEncodingQuotedPrintable

LineUniverse ==
    { lBegin, lComma, lTwoCommas, lEscapedComma, lTypes, lQuotedPrintable,
      lFragment, lJpeg, lBase64, lCharset, lBase64Alone, lValueNamesEncoding }

InitFix ==
    /\ Start(<<>>)
    /\ no_match_approx = FALSE
    /\ startswith = FALSE
    /\ run = 1
    /\ first = [status |-> "none"]
    /\ names = <<>>
    /\ selected = Return(None)
    /\ pc = "main"
    /\ vcard = NoVcard
    /\ \E flag \in BOOLEAN : args = [do_not_force_escape_commas |-> flag]
    /\ module_options = ModuleOptions
    /\ file \in Lists(LineUniverse, MaxLines)
    /\ fixed = <<>>
    /\ refixed = <<>>
    /\ objects = <<>>
    /\ plists = <<>>
    /\ records = <<>>
    /\ collected = <<>>
    /\ result = Return(None)
    /\ disk = <<>>

\* main: vcardlib.OPTION_DO_NOT_FORCE_ESCAPE_COMMAS = args.do_not_force_escape_commas
MainSetsCommaOption ==
    /\ pc = "main"
    /\ module_options' =
           [OPTION_DO_NOT_FORCE_ESCAPE_COMMAS |-> args.do_not_force_escape_commas]
               @@ module_options
    /\ pc' = "fix"
    /\ UNCHANGED <<vcards, no_match_approx, startswith, groups, vcard_group,
                   attributes, i, a, a_values, local_group, p, q,
                   vcards_not_grouped, err, run, first, names, selected, vcard,
                   args, file, fixed, refixed, objects, plists, records, collected, result, disk>>

\* get_vcards_from_files: fix_and_convert_to_v3 on the file
Fix ==
    /\ pc = "fix"
    /\ fixed' = fix_and_convert_to_v3(file, module_options)
    /\ pc' = "fixed"
    /\ UNCHANGED <<vcards, no_match_approx, startswith, groups, vcard_group,
                   attributes, i, a, a_values, local_group, p, q,
                   vcards_not_grouped, err, run, first, names, selected, vcard,
                   args, module_options, file, refixed, objects, plists, records,
                   collected, result, disk>>

\* fix_and_convert_to_v3 on a file that holds what it returned
FixAgain ==
    /\ pc = "fixed"
    /\ refixed' = fix_and_convert_to_v3(fixed, module_options)
    /\ pc' = "refixed"
    /\ UNCHANGED <<vcards, no_match_approx, startswith, groups, vcard_group,
                   attributes, i, a, a_values, local_group, p, q,
                   vcards_not_grouped, err, run, first, names, selected, vcard,
                   args, module_options, file, fixed, objects, plists, records,
                   collected, result, disk>>

NextFix == MainSetsCommaOption \/ Fix \/ FixAgain

SpecFix == InitFix /\ [][NextFix]_vars

(***************************************************************************)
(* collect_attributes and merge, on every list of records of a bounded set *)
(***************************************************************************)

\* most records in a list given to collect_attributes or to merge
MaxRecords == 2

\* A record is written as the list of its instances, an instance as its name,
\* its value and its parameters (name, values).
Written(name, value, params) == [name |-> name, value |-> value, params |-> params]

pType == <<"T", "Y", "P", "E">>

pPref == <<"P", "R", "E", "F">>

tCell == <<"C", "E", "L", "L">>

wFn(value) == Written(NameFn, value, <<>>)

wTel(value, types) == Written(NameTel, value, <<[name |-> pType, values |-> types]>>)

\* the records the lists are made of; each has an FN, as normalize leaves it
RecordUniverse ==
    { <<wFn(sKo), wTel(sTel1, <<tHome>>)>>,
      <<wFn(sKo), wTel(sTel1, <<Upper(tWork)>>)>>,
      <<Written(NameVersion, <<"3">>, <<>>), wFn(sAbCd),
        Written(NameTel, sTel1, <<>>), wTel(sTel2, <<tHome>>)>>,
      <<wFn(sKo), wTel(sTel1, <<tHome, Upper(tWork)>>), wTel(sTel1, <<tCell>>)>>,
      <<wFn(sKo), Written(NameEmail, sMailA, <<[name |-> pType, values |-> <<tHome>>]>>)>>,
      <<wFn(sKo), Written(NameTel, sTel2, <<[name |-> pPref, values |-> <<<<"1">>>>]>>),
        wTel(sTel2, <<Upper(tWork)>>)>>,
      <<wFn(sAbCd), Written(NameEmail, sMailA, <<>>), wTel(sTel1, <<>>)>> }

\* the heap once the written instance w is made an object with list objects of
\* its own
NewInstance(heap, w) ==
    [objs |-> Append(heap.objs,
                  Instance(w.name, w.value,
                           [x \in DOMAIN w.params |->
                               Param(w.params[x].name, Len(heap.pls) + x)])),
     pls |-> heap.pls \o [x \in DOMAIN w.params |-> w.params[x].values]]

\* the heap and the records once the written records are parsed, from
\* instance x of record r
RECURSIVE Parse(_, _, _, _, _)
Parse(written, heap, recs, r, x) ==
    IF r > Len(written) THEN [heap |-> heap, recs |-> recs]
    ELSE IF x > Len(written[r]) THEN Parse(written, heap, recs, r + 1, 1)
    ELSE Parse(written, NewInstance(heap, written[r][x]),
               [recs EXCEPT ![r] = Append(@, Len(heap.objs) + 1)], r, x + 1)

Parsed(written) ==
    Parse(written, [objs |-> <<>>, pls |-> <<>>], [r \in DOMAIN written |-> <<>>], 1, 1)

InitMerge ==
    /\ Start(<<>>)
    /\ no_match_approx = FALSE
    /\ startswith = FALSE
    /\ run = 1
    /\ first = [status |-> "none"]
    /\ names = <<>>
    /\ selected = Return(None)
    /\ pc \in {"collect", "merge"}
    /\ vcard = NoVcard
    /\ module_options = ModuleOptions
    /\ file = <<>>
    /\ fixed = <<>>
    /\ refixed = <<>>
    /\ \E n \in 1..MaxRecords : \E written \in [1..n -> RecordUniverse] :
          /\ objects = Parsed(written).heap.objs
          /\ plists = Parsed(written).heap.pls
          /\ records = Parsed(written).recs
    /\ \E found \in BOOLEAN :
          args = [call |-> pc, objects |-> objects, plists |-> plists,
                  records |-> records,
                  found |-> IF pc = "merge" THEN found ELSE TRUE]
    /\ collected = <<>>
    /\ result = Return(None)
    /\ disk = <<>>

\* attributes = collect_attributes(vcards_to_merge), as the driver and
\* deduplicate call it
CollectAttributes ==
    /\ pc = "collect"
    /\ LET r == collect_attributes([objs |-> objects, pls |-> plists], records)
       IN  /\ objects' = r.heap.objs
           /\ plists' = r.heap.pls
           /\ collected' = r.attrs
           /\ err' = r.err
           /\ pc' = IF r.err = "none" THEN "collected" ELSE "failed"
    /\ UNCHANGED <<vcards, no_match_approx, startswith, groups, vcard_group,
                   attributes, i, a, a_values, local_group, p, q,
                   vcards_not_grouped, run, first, names, selected, vcard, args,
                   module_options, file, fixed, refixed, records, result, disk>>

\* merge(vcard, *vcards_to_merge) with the first record as vcard
Merge ==
    /\ pc = "merge"
    /\ LET r == merge([objs |-> objects, pls |-> plists], records[1], Tail(records),
                      args.found)
       IN  /\ objects' = r.heap.objs
           /\ plists' = r.heap.pls
           /\ records' = [records EXCEPT ![1] = r.base]
           /\ err' = r.err
           /\ pc' = IF r.err = "none" THEN "merged" ELSE "failed"
    /\ UNCHANGED <<vcards, no_match_approx, startswith, groups, vcard_group,
                   attributes, i, a, a_values, local_group, p, q,
                   vcards_not_grouped, run, first, names, selected, vcard, args,
                   module_options, file, fixed, refixed, collected, result,
                   disk>>

NextMerge == CollectAttributes \/ Merge

SpecMerge == InitMerge /\ [][NextMerge]_vars

(***************************************************************************)
(* The library functions called on their own                               *)
(***************************************************************************)

\* the variables of get_vcards_groups but vcards, pc and err, and the
\* variables of the library calls but args, result and disk
grouper_locals == <<no_match_approx, startswith, groups, vcard_group, attributes,
                    i, a, a_values, local_group, p, q, vcards_not_grouped, run,
                    first, names, selected>>

lib_locals == <<vcard, module_options, file, fixed, refixed, objects, plists,
                records, collected>>

\* get_vcards_groups is not running, and neither is the normalizer, the fixer
\* or the merger
Idle ==
    /\ Start(<<>>)
    /\ no_match_approx = FALSE
    /\ startswith = FALSE
    /\ run = 1
    /\ first = [status |-> "none"]
    /\ names = <<>>
    /\ selected = Return(None)
    /\ vcard = NoVcard
    /\ module_options = ModuleOptions
    /\ file = <<>>
    /\ fixed = <<>>
    /\ refixed = <<>>
    /\ objects = <<>>
    /\ plists = <<>>
    /\ records = <<>>
    /\ collected = <<>>

(***************************************************************************)
(* collect_vcard_names, on every record of a bounded set                   *)
(***************************************************************************)

\* the FN lists, N lists, EMAIL values, ORG lists and TEL lists of the records
NamedFnLists == { <<>>, <<sKo>>, <<sNobody>>, <<<<"-">>>> }

NamedNLists == { <<>>, <<build_formatted_name(sAbCd)>> }

NamedEmailValues == { sMailA, sNobody, Display(sMailA) }

NamedOrgLists == { <<>>, << <<sAbCd>> >> }

NamedTelLists == { <<>>, <<sTel1>> }

InitNames ==
    /\ Idle
    /\ pc = "names"
    /\ \E fn \in NamedFnLists, n \in NamedNLists,
          email \in Lists(NamedEmailValues, MaxEmails),
          org \in NamedOrgLists, tel \in NamedTelLists :
          args = [vcard |-> NamedRecord(fn, n, email, org, tel)]
    /\ result = Return(None)
    /\ disk = <<>>

\* available_names = collect_vcard_names(vcard), as get_vcards_from_files
\* calls it
CollectVcardNames ==
    /\ pc = "names"
    /\ result' = collect_vcard_names(args.vcard)
    /\ err' = result'.err
    /\ pc' = IF result'.err = "none" THEN "named" ELSE "failed"
    /\ UNCHANGED <<grouper_locals, lib_locals, vcards, args, disk>>

SpecNames == InitNames /\ [][CollectVcardNames]_vars

(***************************************************************************)
(* write_vcard_to_file, on every file system of a bounded set              *)
(***************************************************************************)

\* the paths of the file system and the records written
Paths == { <<"a">>, <<"b">>, <<"c">> }

WrittenVcards == { [fn |-> sKo], [fn |-> sAbCd] }

\* the file systems: some of the paths exist, each with a content
Disks ==
    UNION { [S -> {serialize(v) : v \in WrittenVcards} \cup {<<>>}] :
              S \in SUBSET Paths }

InitWrite ==
    /\ Idle
    /\ pc = "write"
    /\ disk \in Disks
    /\ \E v \in WrittenVcards, file_path \in Paths :
          args = [vcard |-> v, file_path |-> file_path, disk |-> disk]
    /\ result = Return(None)

\* write_vcard_to_file(vcard, file_path)
WriteVcardToFile ==
    /\ pc = "write"
    /\ \E io \in {"ok", "open fails", "write fails"} :
          LET r == write_vcard_to_file(disk, args.vcard, args.file_path, io)
          IN  /\ disk' = r.disk
              /\ err' = r.err
              /\ result' = IF r.err = "none" THEN Return(None) ELSE Raise(r.err)
              /\ pc' = IF r.err = "none" THEN "written" ELSE "failed"
    /\ UNCHANGED <<grouper_locals, lib_locals, vcards, args>>

SpecWrite == InitWrite /\ [][WriteVcardToFile]_vars

(***************************************************************************)
(* get_vcards_from_files, on every list of parsed records of a bounded set *)
(***************************************************************************)

\* most records parsed from the files
MaxParsed == 2

\* the records readComponents gives: with an FN, an EMAIL or a TEL at least
ParsedUniverse ==
    { Record(TRUE, w[1], <<>>, <<>>, w[2], w[3]) @@ [org |-> <<>>] :
        w \in { x \in {<<>>, <<sKo>>, <<sAbCd>>} \X {<<>>, <<sMailA>>}
                         \X {<<>>, <<sTel1>>} :
                  x # <<<<>>, <<>>, <<>>>> } }

InitRead ==
    /\ Idle
    /\ pc = "read"
    /\ \E parsed \in Lists(ParsedUniverse, MaxParsed), o1, o2, o3 \in BOOLEAN :
          args = [parsed |-> parsed,
                  do_not_overwrite_names |-> o1,
                  mv_name_parenth_braces_to_note |-> o2,
                  do_not_remove_name_in_email |-> o3]
    /\ result = Return(None)
    /\ disk = <<>>

\* for vcard in vcard_list: the next record is named, normalized and stored
\* under a key of its own
ReadVcard ==
    /\ pc = "read"
    /\ i <= Len(args.parsed)
    /\ \E r \in {AddParsed(vcards, args.parsed[i], args.do_not_overwrite_names,
                            args.mv_name_parenth_braces_to_note,
                            args.do_not_remove_name_in_email)} :
          /\ vcards' = r.vcards
          /\ err' = r.err
          /\ i' = IF r.err = "none" THEN i + 1 ELSE i
          /\ pc' = IF r.err = "none" THEN "read" ELSE "failed"
          /\ result' = IF r.err = "none" THEN result ELSE Raise(r.err)
    /\ UNCHANGED <<no_match_approx, startswith, groups, vcard_group, attributes,
                   a, a_values, local_group, p, q, vcards_not_grouped, run, first,
                   names, selected, lib_locals, args, disk>>

\* return vcards
ReadReturns ==
    /\ pc = "read"
    /\ i > Len(args.parsed)
    /\ result' = Return(vcards)
    /\ pc' = "read done"
    /\ UNCHANGED <<grouper_locals, lib_locals, vcards, err, args, disk>>

NextRead == ReadVcard \/ ReadReturns

SpecRead == InitRead /\ [][NextRead]_vars

(***************************************************************************)
(* sanitize_name, on every name of a bounded set, and on what it returned  *)
(***************************************************************************)

\* most pieces of a name given to sanitize_name
MaxPieces == 3

\* the pieces: 'a', ' ', five spaces, '.', 'ICE' and '(a)'
NamePieces ==
    { <<"a">>, <<" ">>, <<" ", " ", " ", " ", " ">>, <<".">>, <<"I", "C", "E">>,
      <<"(", "a", ")">> }

SanitizedUniverse == { Flat(l) : l \in Lists(NamePieces, MaxPieces) }

InitSanitize ==
    /\ Idle
    /\ pc = "sanitize"
    /\ \E name \in SanitizedUniverse : args = [name |-> name]
    /\ result = Return(None)
    /\ disk = <<>>

\* sanitize_name(name)
Sanitize ==
    /\ pc = "sanitize"
    /\ result' = Return(sanitize_name(args.name))
    /\ pc' = "sanitized"
    /\ UNCHANGED <<grouper_locals, lib_locals, vcards, err, args, disk>>

\* sanitize_name on the name the first call returned
SanitizeAgain ==
    /\ pc = "sanitized"
    /\ args' = [name |-> result.val]
    /\ result' = Return(sanitize_name(result.val))
    /\ pc' = "resanitized"
    /\ UNCHANGED <<grouper_locals, lib_locals, vcards, err, disk>>

NextSanitize == Sanitize \/ SanitizeAgain

SpecSanitize == InitSanitize /\ [][NextSanitize]_vars

(***************************************************************************)
(* match_approx, on every pair of names of a bounded set, both ways round  *)
(***************************************************************************)

\* the names compared: 'ab cd', 'cd ab', 'ab - cd', 'abcdef', 'abcdefghi',
\* 'ko', 'abcdefg' and 'cd abcdef'
ApproxNames ==
    { sAbCd, sCdAb, sAbDashCd, sAbcdef, sAbcdefghi, sKo, sAbcdef \o <<"g">>,
      <<"c", "d", " ">> \o sAbcdef }

InitApprox ==
    /\ Idle
    /\ pc = "match"
    /\ \E reference \in ApproxNames, compared \in ApproxNames, o \in BOOLEAN :
          args = [reference |-> reference, compared |-> compared,
                  OPTION_MATCH_APPROX_STARTSWITH |-> o]
    /\ result = Return(None)
    /\ disk = <<>>

\* match_approx(name1, name2), as the fuzzy phase calls it
MatchApprox ==
    /\ pc = "match"
    /\ result' = Return(<<match_approx(args.reference, args.compared,
                                       args.OPTION_MATCH_APPROX_STARTSWITH)>>)
    /\ pc' = "matched"
    /\ UNCHANGED <<grouper_locals, lib_locals, vcards, err, args, disk>>

\* match_approx(name2, name1): the same pair, indexed the other way round
MatchApproxSwapped ==
    /\ pc = "matched"
    /\ result' = Return(Append(result.val,
                               match_approx(args.compared, args.reference,
                                            args.OPTION_MATCH_APPROX_STARTSWITH)))
    /\ pc' = "matched both ways"
    /\ UNCHANGED <<grouper_locals, lib_locals, vcards, err, args, disk>>

NextApprox == MatchApprox \/ MatchApproxSwapped

SpecApprox == InitApprox /\ [][NextApprox]_vars

(***************************************************************************)
(* get_vcards_groups on working sets where two pairs of records match      *)
(***************************************************************************)

\* four records with short names: the first two have one address, the last
\* two have one number
PairedUniverse ==
    { Vcard(sKo, <<sKo>>, <<sKo>>, <<>>, <<sMailA>>),
      Vcard(<<"a", "b">>, <<<<"a", "b">>>>, <<<<"a", "b">>>>, <<>>, <<sMailA>>),
      Vcard(<<"c", "d">>, <<<<"c", "d">>>>, <<<<"c", "d">>>>,
            <<Tel(sTel2, <<>>)>>, <<>>),
      Vcard(<<"e", "f">>, <<<<"e", "f">>>>, <<<<"e", "f">>>>,
            <<Tel(sTel2, <<>>)>>, <<>>) }

\* the ordered working sets: any of the four records, with distinct keys
PairedSets ==
    {vs \in UNION {[1..n -> PairedUniverse] : n \in 0..Cardinality(PairedUniverse)} :
        \A x, y \in DOMAIN vs : x # y => vs[x].key # vs[y].key}

InitPairs ==
    /\ \E vs \in PairedSets : Start(vs)
    /\ pc = "record"
    /\ no_match_approx \in BOOLEAN
    /\ startswith \in BOOLEAN
    /\ run = 1
    /\ first = [status |-> "none"]
    /\ names = <<>>
    /\ selected = Return(None)
    /\ LibIdle

\* one run of get_vcards_groups
NextPairs ==
    \/ NextRecord
    \/ NextAttr
    \/ MapValue
    \/ StartFuzzy
    \/ FuzzyPair
    \/ Collect

SpecPairs == InitPairs /\ [][NextPairs]_vars

(***************************************************************************)
(* Properties                                                              *)
(***************************************************************************)

\* the keys of the working set
Keys == {vcards[x].key : x \in DOMAIN vcards}

\* the groups whose member list holds key k
GroupsOf(k) == {g \in DOMAIN groups : k \in Range(groups[g])}

\* the run has ended: get_vcards_groups returned or raised
Ended == pc \in {"done", "failed"}

\* the member sets of a groups dict
Partition(g) == {Range(g[x]) : x \in DOMAIN g}

\* No state of a run holds a group: each group_keys call that has a group to
\* create ends in the TypeError of select_most_relevant_name.
GroupsStayEmpty == DOMAIN groups = {}

\* C1: after every group_keys call of get_vcards_groups (it returned, so the
\* run has not failed) the two mappings agree: every key of vcard_group maps to
\* a key of groups whose member list holds it, and every member of groups[g]
\* has vcard_group equal to g.
C1_MappingsAgree ==
    pc # "failed" =>
        /\ \A k \in DOMAIN vcard_group :
              /\ vcard_group[k] \in DOMAIN groups
              /\ k \in Range(groups[vcard_group[k]])
        /\ \A g \in DOMAIN groups : \A k \in Range(groups[g]) :
              /\ k \in DOMAIN vcard_group
              /\ vcard_group[k] = g

\* C2: when get_vcards_groups returns, every record key is a member of exactly
\* one group or is listed in vcards_not_grouped, never both and never neither,
\* and vcards_not_grouped lists its keys in the insertion order of vcards.
C2_EveryKeyAccountedOnce ==
    pc = "done" =>
        /\ \A k \in Keys :
              \/ Cardinality(GroupsOf(k)) = 1 /\ k \notin Range(vcards_not_grouped)
              \/ GroupsOf(k) = {} /\ k \in Range(vcards_not_grouped)
        /\ LET listed == SelectSeq(vcards,
                             LAMBDA v : v.key \in Range(vcards_not_grouped))
           IN  vcards_not_grouped = [x \in DOMAIN listed |-> listed[x].key]

C5_Deterministic ==
    (run = 2 /\ Ended /\ vcards = first.vcards) => Outcome = first.outcome

\* C6: when two records expose a common value for a match attribute, the run
\* returns with both in one common group.
C6_ExactMatchesShareGroup ==
    Ended =>
        \A x, y \in DOMAIN vcards : \A n \in DOMAIN OPTION_MATCH_ATTRIBUTES :
            ( /\ x # y
              /\ collect_values(vcards[x], OPTION_MATCH_ATTRIBUTES[n])
                     \cap collect_values(vcards[y], OPTION_MATCH_ATTRIBUTES[n]) # {} )
            => /\ pc = "done"
               /\ GroupsOf(vcards[x].key) \cap GroupsOf(vcards[y].key) # {}

\* C7: with fuzzy matching enabled, once the first loop is over, for two names
\* of the names index that match_approx accepts with the earlier one as the
\* reference, the run returns with every two records that expose them in one
\* common group.
C7_FuzzyMatchesShareGroup ==
    (Ended /\ ~no_match_approx /\ i > Len(vcards) /\ AttrNames \in DOMAIN attributes) =>
        LET index == attributes[AttrNames]
        IN  \A x, y \in DOMAIN index :
                (x < y /\ match_approx(index[x].value, index[y].value, startswith))
                => \A k1 \in Range(index[x].keys), k2 \in Range(index[y].keys) :
                      k1 # k2 =>
                          /\ pc = "done"
                          /\ GroupsOf(k1) \cap GroupsOf(k2) # {}

\* C8: for a non-empty list of non-empty names without '=',
\* select_most_relevant_name returns an element of the list, and no element is
\* longer than it once bracketed segments are removed; it fails for the empty
\* list.
C8_SelectReturnsLongest ==
    pc = "selected" =>
        /\ ( /\ names # <<>>
             /\ \A x \in DOMAIN names :
                   names[x] # <<>> /\ ~Contains(names[x], <<"=">>) )
           => /\ selected.err = "none"
              /\ selected.val \in Range(names)
              /\ \A x \in DOMAIN names :
                    len_without_parenth_or_braces(names[x])
                        <= len_without_parenth_or_braces(selected.val)
        /\ names = <<>> => selected.err # "none"

\* some character of s is a whitespace character
HasSpace(s) == \E x \in DOMAIN s : IsSpace(s[x])

\* C11: after normalize the record has exactly one FN instance and exactly one
\* N instance, whatever the record and the options were.
C11_OneFnOneN ==
    pc = "normalized" => Len(vcard.fn) = 1 /\ Len(vcard.n) = 1

\* C12: after normalize with the default options no EMAIL value of the record
\* ends in '@nowhere.invalid'.
C12_NoPlaceholderEmail ==
    ( /\ pc = "normalized"
      /\ ~args.do_not_overwrite_names
      /\ ~args.mv_name_parenth_braces_to_note
      /\ ~args.do_not_remove_name_in_email )
    => \A x \in DOMAIN vcard.email : ~EndsWith(vcard.email[x], sNowhereInvalid)

\* C13: after normalize with the default options every EMAIL value left is
\* lowercase, has no leading or trailing whitespace and is not of the form
\* "display" <addr>.
C13_EmailsLowerStrippedBare ==
    ( /\ pc = "normalized"
      /\ ~args.do_not_overwrite_names
      /\ ~args.mv_name_parenth_braces_to_note
      /\ ~args.do_not_remove_name_in_email )
    => \A x \in DOMAIN vcard.email :
          /\ Lower(vcard.email[x]) = vcard.email[x]
          /\ Strip(vcard.email[x]) = vcard.email[x]
          /\ REGEX_EMAIL_WITH_NAME(vcard.email[x]) = None

\* C14: after normalize no TEL value of the record holds a whitespace
\* character, at any position.
C14_TelsWithoutWhitespace ==
    pc = "normalized" => \A x \in DOMAIN vcard.tel : ~HasSpace(vcard.tel[x])

\* every comma of s from position k on has a backslash before it
EveryCommaEscaped(s, k) ==
    \A x \in k..Len(s) : s[x] = "," => (x > 1 /\ s[x - 1] = "\\")

\* the number of characters c in the lines of a text
RECURSIVE CountInLine(_, _)
CountInLine(s, c) ==
    IF s = <<>> THEN 0
    ELSE (IF s[1] = c THEN 1 ELSE 0) + CountInLine(Tail(s), c)

RECURSIVE CountInText(_, _)
CountInText(text, c) ==
    IF text = <<>> THEN 0
    ELSE CountInLine(text[1], c) + CountInText(Tail(text), c)

\* C15: the fixer applied to its own output gives that output again.
C15_FixIdempotent ==
    pc = "refixed" => refixed = fixed

\* C16: with comma escaping enabled (the driver's option is not set), in the
\* output of the fixer every comma in the body of a key:value line, the joined
\* continuation fragments included, has a backslash before it.
C16_BodyCommasEscaped ==
    (pc = "fixed" /\ ~args.do_not_force_escape_commas) =>
        \A x \in DOMAIN fixed :
            KeyValueColon(fixed[x]) # 0
            => EveryCommaEscaped(fixed[x], KeyValueColon(fixed[x]) + 1)

\* C17: when the driver is run with do_not_force_escape_commas, the fixer
\* rewrites no comma: it adds no backslash to the text.
C17_OptionDisablesEscaping ==
    (pc = "fixed" /\ args.do_not_force_escape_commas) =>
        CountInText(fixed, "\\") = CountInText(file, "\\")

\* the instances of the records given to the merger, as they were given
GivenIds == UNION {Range(args.records[r]) : r \in DOMAIN args.records}

\* the property names of the given records, VERSION apart
GivenNames ==
    {Lower(args.objects[id].name) : id \in GivenIds} \ {Lower(NameVersion)}

\* the given instances of property name
GivenOf(name) == {id \in GivenIds : Lower(args.objects[id].name) = name}

\* instance id, as collect_attributes left it, has value pv for parameter p_name
HasParamValue(id, p_name, pv) ==
    \E x \in DOMAIN objects[id].params :
        /\ objects[id].params[x].name = p_name
        /\ pv \in Range(plists[objects[id].params[x].list])

\* C18: collect_attributes returns, for each property name of the records
\* other than VERSION, a list with exactly one instance per distinct value of
\* that property in the records, and the parameters of that instance hold
\* every parameter value that a given instance with that value carries.
C18_OneInstancePerValueWithAllParams ==
    pc = "collected" =>
        /\ {collected[x].name : x \in DOMAIN collected} = GivenNames
        /\ \A x \in DOMAIN collected :
              LET list == collected[x].list
              IN  /\ \A y, z \in DOMAIN list :
                        y # z => objects[list[y]].value # objects[list[z]].value
                  /\ {objects[list[y]].value : y \in DOMAIN list}
                         = {args.objects[id].value : id \in GivenOf(collected[x].name)}
                  /\ \A id \in GivenOf(collected[x].name) :
                        \A y \in DOMAIN list :
                            objects[list[y]].value = args.objects[id].value
                            => \A w \in DOMAIN args.objects[id].params :
                                  \A pv \in Range(args.plists[args.objects[id].params[w].list]) :
                                      HasParamValue(list[y], args.objects[id].params[w].name, pv)

\* C18 witness: collect_attributes returned for records in which two instances
\* of one property have the same value and different parameter values.
C18_SameValueDifferentParams ==
    /\ pc = "collected"
    /\ \E id1, id2 \in GivenIds :
          /\ id1 # id2
          /\ args.objects[id1].name = args.objects[id2].name
          /\ args.objects[id1].value = args.objects[id2].value
          /\ \E w \in DOMAIN args.objects[id2].params :
                \E pv \in Range(args.plists[args.objects[id2].params[w].list]) :
                    \A v \in DOMAIN args.objects[id1].params :
                        pv \notin Range(args.plists[args.objects[id1].params[v].list])

\* C19: collect_attributes leaves every instance of every given record as it
\* was, its value and its parameters.
C19_SourcesUnchanged ==
    pc = "collected" => (objects = args.objects /\ plists = args.plists)

\* the number of instances of property name in a record
CountOf(objs, record, name) ==
    Cardinality({x \in DOMAIN record : objs[record[x]].name = name})

RECURSIVE SumOf(_, _, _)
SumOf(objs, recs, name) ==
    IF recs = <<>> THEN 0
    ELSE CountOf(objs, recs[1], name) + SumOf(objs, Tail(recs), name)

\* C20: merge(base, o1, ..., on) returns, and for every property name the
\* number of its instances in base is then the number before the call plus
\* the number of its instances in o1..on.
C20_MergeAppendsEachOnce ==
    (args.call = "merge" /\ pc \in {"merged", "failed"}) =>
        /\ pc = "merged"
        /\ \A name \in {NameFn, NameTel, NameEmail, NameVersion} :
              CountOf(objects, records[1], name)
                  = SumOf(args.objects, args.records, name)

\* the values of a record that are Thunderbird placeholders
IsPlaceholder(value) == EndsWith(Strip(Lower(value)), sNowhereInvalid)

HasPlaceholder(v) ==
    \/ \E x \in DOMAIN v.fn : IsPlaceholder(v.fn[x])
    \/ \E x \in DOMAIN v.email : IsPlaceholder(v.email[x])

\* C21: collect_vcard_names never fails because of a Thunderbird placeholder
\* address: for a record whose FN value or EMAIL values are '@nowhere.invalid'
\* placeholders the call returns its list of names, the placeholder being
\* skipped and the candidates taken from the next source.
C21_PlaceholderNeverFails ==
    (pc \in {"named", "failed"} /\ HasPlaceholder(args.vcard)) =>
        result.err = "none"

\* C22: write_vcard_to_file never overwrites: when the target path exists
\* before the call, the call fails and every file is as it was; a file is
\* created only on the target path, and only when it did not exist.
C22_NeverOverwrites ==
    pc \in {"written", "failed"} =>
        /\ args.file_path \in DOMAIN args.disk =>
              (result.err # "none" /\ disk = args.disk)
        /\ \A f \in DOMAIN args.disk : f \in DOMAIN disk /\ disk[f] = args.disk[f]
        /\ \A f \in DOMAIN disk \ DOMAIN args.disk : f = args.file_path

\* the target path existed with another content and the call has failed, and
\* the target path did not exist and the call has created it
C22_ExistingTargetRefused ==
    /\ pc = "failed"
    /\ err = "RuntimeError"
    /\ args.file_path \in DOMAIN args.disk
    /\ args.disk[args.file_path] # serialize(args.vcard)

\* C23: get_vcards_from_files gives every parsed record its own key: no
\* stored record is replaced, so the working set it returns has as many
\* entries as records were parsed, under keys that differ.
C23_EveryParsedRecordStored ==
    pc \in {"read done", "failed"} =>
        /\ pc = "read done"
        /\ Len(result.val) = Len(args.parsed)
        /\ \A x, y \in DOMAIN result.val :
              result.val[x].key = result.val[y].key => x = y

\* C24: sanitize_name is idempotent: called on a name it returned, it returns
\* that name.
C24_SanitizeIdempotent == pc = "resanitized" => result.val = args.name

\* the header of a line of the fixer's output: the key part of a key:value
\* line, and its fields
Header(line) == Upto(line, KeyValueColon(line))

HeaderFields(line) == SplitBy(Header(line), <<";">>)

\* C25: in the output of the fixer no header carries ENCODING=BASE64,
\* ENCODING=B or a bare QUOTED-PRINTABLE token any more: they are rewritten
\* to ENCODING=b and to ENCODING=QUOTED-PRINTABLE in every header, with or
\* without a type token.
C25_EncodingsRewritten ==
    pc = "fixed" =>
        \A x \in DOMAIN fixed :
            \A f \in DOMAIN HeaderFields(fixed[x]) :
                HeaderFields(fixed[x])[f]
                    \notin {sEncodingBase64, sEncodingUpperB, sQuotedPrintable}

\* the physical lines that start a logical line, from line k: a line is a
\* continuation when it has no header shape and the header of the logical
\* line in progress carries ENCODING=QUOTED-PRINTABLE (quoted tells it)
RECURSIVE LogicalStarts(_, _, _)
LogicalStarts(text, k, quoted) ==
    IF k > Len(text) THEN <<>>
    ELSE IF k > 1 /\ quoted /\ KeyValueColon(text[k]) = 0
         THEN LogicalStarts(text, k + 1, quoted)
    ELSE <<k>> \o LogicalStarts(text, k + 1,
                      Contains(Header(FixLine(text[k], FALSE).new_line),
                               sEncodingQuotedPrintable))

\* C26: a physical line is joined to the logical line in progress only if it
\* has no header shape and the header of that logical line carries
\* ENCODING=QUOTED-PRINTABLE; every other physical line gives one output
\* line, and the output lines are in the order of the input.
C26_OneOutputLinePerLogicalLine ==
    pc = "fixed" =>
        LET starts == LogicalStarts(file, 1, FALSE)
        IN  /\ Len(fixed) = Len(starts)
            /\ \A x \in DOMAIN starts :
                  LET head == FixLine(file[starts[x]], FALSE).new_line
                  IN  IF KeyValueColon(head) = 0 THEN fixed[x] = head
                      ELSE StartsWith(fixed[x], Header(head) \o <<":">>)

\* the contents of all the bracketed segments of a name value
RECURSIVE Segments(_)
Segments(s) ==
    IF BracketSearch(s) = 0 THEN {}
    ELSE {RemoveBrackets(Strip(BracketGroup(s)))}
             \cup Segments(From(s, BracketClose(s, BracketSearch(s)) + 1))

\* the FN values normalize starts the move from: those of the record when
\* they are kept, else the selected name
NamesBeforeMove ==
    IF args.do_not_overwrite_names /\ args.vcard.fn # <<>> THEN args.vcard.fn
    ELSE <<args.selected_name>>

\* C29: with the move-to-NOTE option set, after normalize no FN value and no
\* N value holds a bracketed segment, and the content of every bracketed
\* segment of the name values, not of the first alone, is in the NOTE.
C29_BracketedTextMovedToNote ==
    (pc = "normalized" /\ args.mv_name_parenth_braces_to_note) =>
        /\ \A x \in DOMAIN vcard.fn : BracketSearch(vcard.fn[x]) = 0
        /\ \A x \in DOMAIN vcard.n : BracketSearch(NameStr(vcard.n[x])) = 0
        /\ \A x \in DOMAIN NamesBeforeMove :
              \A inner \in Segments(NamesBeforeMove[x]) :
                  \E y \in DOMAIN vcard.note : Contains(vcard.note[y], inner)

\* C28: with the default options (fuzzy matching enabled, 'names' among the
\* match attributes) get_vcards_groups returns for every working set, the
\* empty one included: it never raises.
C28_ReturnsWithoutRaising == ~no_match_approx => pc # "failed"

\* C30: match_approx is symmetric: for every pair of names and every setting
\* of the startswith option, match_approx(a, b) = match_approx(b, a).
C30_MatchApproxSymmetric ==
    pc = "matched both ways" => result.val[1] = result.val[2]

====
